---- MODULE Spec2Model ----
(***************************************************************************)
(* Model of the ti-client HTTP client (client/http.go): construction of    *)
(* the HTTPClient, the per-operation argument validators, the operation    *)
(* facade, the single-attempt primitives do/open and the retrying wrapper  *)
(* retry with its backoff schedule and the caller's context; and of the    *)
(* checksum of a chain of pairs (chrysalis/utils/utils.go).                *)
(***************************************************************************)
EXTENDS Integers, Sequences, FiniteSets, TLC

VARIABLES client, calls, backoffs, requests, result

vars == <<client, calls, backoffs, requests, result>>

(***************************************************************************)
(* Bounds of the model.                                                    *)
(***************************************************************************)
\* attempts one call may make before the model stops following it
MaxAttempts == 3

(***************************************************************************)
(* Values.                                                                 *)
(***************************************************************************)
\* a string argument or identifier: empty, or set
Str == {"", "x"}

\* endpoint strings are sequences of characters
Slash == "/"

\* the endpoints handed to NewHTTPClient
EndpointInputs == {<<>>, <<"h", "/">>}

\* HTTP statuses the server answers with
Statuses == {200, 204, 300, 302, 404, 500, 503}

StatusNoContent == 204
StatusMultipleChoices == 300
StatusOK == 200
StatusInternalServerError == 500

\* a response body, relative to the value do() parses it into: no bytes,
\* well-formed JSON of the expected shape, valid JSON with a field of the
\* wrong type, or bytes that are not JSON
Bodies == {"empty", "json", "mistyped", "garbage"}

\* what the transport and the server do to one attempt: the input cannot be
\* serialized, the request cannot be built, sending fails, the body cannot
\* be read, or a response arrives
Answers ==
    [fail : {"encode", "build", "send"}, status : {0}, body : {"empty"}]
      \cup [fail : {"read"}, status : Statuses \ {StatusNoContent}, body : {"empty"}]
      \cup [fail : {"none"}, status : Statuses, body : Bodies]

\* error values
Err(kind, code, msg) == [kind |-> kind, code |-> code, msg |-> msg]
Nil == Err("nil", 0, "")

\* fmt.Errorf("<msg>") of the validators
Errorf(msg) == Err("validation", 0, msg)

\* ctx.Err()
CtxErr(ctx) ==
    IF ctx = "canceled" THEN Err("context", 0, "context canceled")
    ELSE IF ctx = "deadline" THEN Err("context", 0, "context deadline exceeded")
    ELSE Nil

(***************************************************************************)
(* The files and certificates NewHTTPClient reads.                         *)
(***************************************************************************)
\* entries of the additional certificates directory that are looked at
MaxEntries == 2

\* what a file holds: a PEM certificate, a PEM private key, or bytes that
\* are neither
Contents == {"certA", "certB", "keyA", "keyB", "garbage"}

\* what is at a path: nothing, a directory, a file that cannot be read, or
\* a readable file with its content
Nodes == {"absent", "dir", "locked"} \cup Contents

\* the paths NewHTTPClient hands to loadMTLSCerts, and the directory a
\* caller names as additionalCertsDir
MtlsCertFile == "/etc/mtls/client.crt"
MtlsKeyFile == "/etc/mtls/client.key"
CertsDir == "/certs"

\* os.Stat(filename): err == nil && !info.IsDir()
fileExists(filename, os) == os.files[filename] \notin {"absent", "dir"}

\* os.ReadFile(path)
ReadFile(node) ==
    IF node \in Contents THEN [err |-> Nil, bytes |-> node]
    ELSE [err |-> Err("os", 0, "read file"), bytes |-> ""]

\* tls.Certificate{}, and the certificate of a parsed pair
NoCertificate == [Certificate |-> "", PrivateKey |-> ""]

\* tls.X509KeyPair(certPEMBlock, keyPEMBlock): the pair parses when the
\* first block is a certificate and the second the private key of it
X509KeyPair(certPEMBlock, keyPEMBlock) ==
    IF \/ certPEMBlock = "certA" /\ keyPEMBlock = "keyA"
       \/ certPEMBlock = "certB" /\ keyPEMBlock = "keyB"
    THEN [err |-> Nil, cert |-> [Certificate |-> certPEMBlock, PrivateKey |-> keyPEMBlock]]
    ELSE [err |-> Err("tls", 0, "key pair"), cert |-> NoCertificate]

\* tls.LoadX509KeyPair(certFile, keyFile): both files are read, then parsed
LoadX509KeyPair(certFile, keyFile, os) ==
    LET c == ReadFile(os.files[certFile])
        k == ReadFile(os.files[keyFile])
    IN  IF c.err # Nil THEN [err |-> c.err, cert |-> NoCertificate]
        ELSE IF k.err # Nil THEN [err |-> k.err, cert |-> NoCertificate]
        ELSE X509KeyPair(c.bytes, k.bytes)

\* base64.StdEncoding.DecodeString(s) on the strings handed in as inline
\* certificate and key
DecodeString(s) ==
    CASE s = "" -> [err |-> Nil, bytes |-> ""]
      [] s = "Y2VydEE=" -> [err |-> Nil, bytes |-> "certA"]
      [] s = "Y2VydEI=" -> [err |-> Nil, bytes |-> "certB"]
      [] s = "a2V5QQ==" -> [err |-> Nil, bytes |-> "keyA"]
      [] s = "a2V5Qg==" -> [err |-> Nil, bytes |-> "keyB"]
      [] s = "Z2FyYmFnZQ==" -> [err |-> Nil, bytes |-> "garbage"]
      [] OTHER -> [err |-> Err("base64", 0, "illegal base64 data"), bytes |-> ""]

loadCertsFromBase64(certBase64, keyBase64) ==
    LET certBytes == DecodeString(certBase64)
        keyBytes == DecodeString(keyBase64)
    IN  IF certBytes.err # Nil
        THEN [err |-> Err("base64", 0, "failed to decode base64 certificate"),
              cert |-> NoCertificate]
        ELSE IF keyBytes.err # Nil
        THEN [err |-> Err("base64", 0, "failed to decode base64 key"),
              cert |-> NoCertificate]
        ELSE X509KeyPair(certBytes.bytes, keyBytes.bytes)

\* the outcome of loading the client certificate; consulted tells whether
\* the files were looked at
Loaded(enabled, cert, consulted) ==
    [enabled |-> enabled, cert |-> cert, consulted |-> consulted]

loadMTLSCertsFromFiles(certFile, keyFile, os) ==
    IF fileExists(certFile, os) /\ fileExists(keyFile, os)
    THEN LET mtlsCerts == LoadX509KeyPair(certFile, keyFile, os)
         IN  IF mtlsCerts.err # Nil THEN Loaded(FALSE, NoCertificate, TRUE)
             ELSE Loaded(TRUE, mtlsCerts.cert, TRUE)
    ELSE Loaded(FALSE, NoCertificate, TRUE)

\* loadMTLSCerts taking the certificate of the files when there is one
loadMTLSCerts_FilesFirst(base64Cert, base64Key, defaultCertFile, defaultKeyFile, os) ==
    LET f == loadMTLSCertsFromFiles(defaultCertFile, defaultKeyFile, os)
        r == loadCertsFromBase64(base64Cert, base64Key)
    IN  IF f.enabled THEN f
        ELSE IF base64Cert # "" /\ base64Key # "" /\ r.err = Nil
        THEN Loaded(TRUE, r.cert, TRUE)
        ELSE f

loadMTLSCerts(base64Cert, base64Key, defaultCertFile, defaultKeyFile, os) ==
    LET r == loadCertsFromBase64(base64Cert, base64Key)
    IN  IF base64Cert # "" /\ base64Key # "" /\ r.err = Nil
        THEN Loaded(TRUE, r.cert, FALSE)
        ELSE loadMTLSCertsFromFiles(defaultCertFile, defaultKeyFile, os)

\* a *x509.CertPool: whether it started from the system's roots, and the
\* certificates appended to it; nil
NilPool == [nil |-> TRUE]
NewCertPool == [system |-> FALSE, certs |-> {}]

\* x509.SystemCertPool(), nil when the system's roots cannot be loaded
SystemCertPool(os) == IF os.systemRoots THEN [system |-> TRUE, certs |-> {}] ELSE NilPool

\* rootCAs.AppendCertsFromPEM(rootPem)
AppendCertsFromPEM(pool, rootPem) ==
    IF rootPem \in {"certA", "certB"}
    THEN [ok |-> TRUE, pool |-> [pool EXCEPT !.certs = @ \cup {rootPem}]]
    ELSE [ok |-> FALSE, pool |-> pool]

\* os.ReadDir(name): the entries of a directory
ReadDir(name, os) ==
    IF name \in DOMAIN os.dirs
    THEN [err |-> Nil, files |-> os.dirs[name]]
    ELSE [err |-> Err("os", 0, "read dir"), files |-> <<>>]

\* the loop of loadRootCAs over the entries from the k-th on, stopping at
\* the first entry that cannot be read or parsed
RECURSIVE appendEntries_StopAtFailure(_, _, _)
appendEntries_StopAtFailure(rootCAs, files, k) ==
    IF k > Len(files) THEN rootCAs
    ELSE LET rootPem == ReadFile(files[k])
             added == AppendCertsFromPEM(rootCAs, rootPem.bytes)
         IN  IF rootPem.err # Nil THEN rootCAs
             ELSE IF ~added.ok THEN rootCAs
             ELSE appendEntries_StopAtFailure(added.pool, files, k + 1)

\* the loop of loadRootCAs over the entries from the k-th on
RECURSIVE appendEntries(_, _, _)
appendEntries(rootCAs, files, k) ==
    IF k > Len(files) THEN rootCAs
    ELSE LET rootPem == ReadFile(files[k])
             added == AppendCertsFromPEM(rootCAs, rootPem.bytes)
         IN  IF rootPem.err # Nil THEN appendEntries(rootCAs, files, k + 1)
             ELSE IF ~added.ok THEN appendEntries(rootCAs, files, k + 1)
             ELSE appendEntries(added.pool, files, k + 1)

loadRootCAs(additionalCertsDir, os) ==
    IF additionalCertsDir = "" THEN NilPool
    ELSE LET system == SystemCertPool(os)
             rootCAs == IF system = NilPool THEN NewCertPool ELSE system
             dir == ReadDir(additionalCertsDir, os)
         IN  IF dir.err # Nil THEN rootCAs
             ELSE appendEntries(rootCAs, dir.files, 1)

\* an *http.Client: nil, and the redirect policy http.ErrUseLastResponse
NilClient == [nil |-> TRUE]
ErrUseLastResponse == "ErrUseLastResponse"

\* clientWithTLSConfig installing the roots whatever skipverify is
clientWithTLSConfig_RootsAlways(skipverify, rootCAs, mtlsEnabled, cert) ==
    [CheckRedirect |-> ErrUseLastResponse,
     Transport |->
        [Proxy |-> "ProxyFromEnvironment",
         TLSClientConfig |->
            [InsecureSkipVerify |-> skipverify,
             RootCAs |-> rootCAs,
             Certificates |-> IF mtlsEnabled THEN <<cert>> ELSE <<>>]]]

clientWithTLSConfig(skipverify, rootCAs, mtlsEnabled, cert) ==
    [CheckRedirect |-> ErrUseLastResponse,
     Transport |->
        [Proxy |-> "ProxyFromEnvironment",
         TLSClientConfig |->
            [InsecureSkipVerify |-> skipverify,
             RootCAs |-> IF ~skipverify /\ rootCAs # NilPool THEN rootCAs ELSE NilPool,
             Certificates |-> IF mtlsEnabled THEN <<cert>> ELSE <<>>]]]

\* the process-wide default client
\* the default client following redirects, as an http.Client without a
\* CheckRedirect does
defaultClient_FollowsRedirects == [CheckRedirect |-> "follow", Transport |-> [nil |-> TRUE]]

defaultClient == [CheckRedirect |-> ErrUseLastResponse, Transport |-> [nil |-> TRUE]]

\* c.client() handing out the default client whatever c.Client is
httpClient_AlwaysDefault(c) == defaultClient

\* c.client()
httpClient(c) == IF c.Client = NilClient THEN defaultClient ELSE c.Client

\* a machine on which NewHTTPClient finds no certificate files
BareOS == [files |-> [p \in {MtlsCertFile, MtlsKeyFile} |-> "absent"],
           dirs |-> <<>>, systemRoots |-> TRUE]

(***************************************************************************)
(* Construction.                                                           *)
(***************************************************************************)
\* strings.TrimRight(s, suffix): every trailing suffix removed
RECURSIVE TrimSuffix_TrimRight(_, _)
TrimSuffix_TrimRight(s, suffix) ==
    IF Len(s) > 0 /\ s[Len(s)] = suffix
    THEN TrimSuffix_TrimRight(SubSeq(s, 1, Len(s) - 1), suffix)
    ELSE s

TrimSuffix(s, suffix) ==
    IF Len(s) > 0 /\ s[Len(s)] = suffix THEN SubSeq(s, 1, Len(s) - 1) ELSE s

NewHTTPClient(endpoint, token, accountID, orgID, projectID, pipelineID, buildID, stageID, repo, sha, commitLink, skipverify, additionalCertsDir, base64MtlsClientCert, base64MtlsClientCertKey, os) ==
    LET mtls == loadMTLSCerts(base64MtlsClientCert, base64MtlsClientCertKey,
                              MtlsCertFile, MtlsKeyFile, os)
        rootCAs == loadRootCAs(additionalCertsDir, os)
    IN  [Client |-> IF skipverify \/ rootCAs # NilPool \/ mtls.enabled
                    THEN clientWithTLSConfig(skipverify, rootCAs, mtls.enabled, mtls.cert)
                    ELSE NilClient,
         Endpoint |-> TrimSuffix(endpoint, Slash),
         Token |-> token,
         AccountID |-> accountID,
         OrgID |-> orgID,
         ProjectID |-> projectID,
         PipelineID |-> pipelineID,
         BuildID |-> buildID,
         StageID |-> stageID,
         Repo |-> repo,
         Sha |-> sha,
         CommitLink |-> commitLink,
         SkipVerify |-> skipverify]

(***************************************************************************)
(* Validators.                                                             *)
(***************************************************************************)
validateTiArgs(c) ==
    IF c.Endpoint = <<>> THEN Errorf("ti endpoint is not set")
    ELSE IF c.Token = "" THEN Errorf("ti token is not set")
    ELSE Nil

validateBasicArgs(c) ==
    IF c.AccountID = "" THEN Errorf("accountID is not set")
    ELSE IF c.OrgID = "" THEN Errorf("orgID is not set")
    ELSE IF c.ProjectID = "" THEN Errorf("projectID is not set")
    ELSE IF c.PipelineID = "" THEN Errorf("pipelineID is not set")
    ELSE Nil

validateWriteArgs(c, stepID, report) ==
    IF validateTiArgs(c) # Nil THEN validateTiArgs(c)
    ELSE IF validateBasicArgs(c) # Nil THEN validateBasicArgs(c)
    ELSE IF c.BuildID = "" THEN Errorf("buildID is not set")
    ELSE IF c.StageID = "" THEN Errorf("stageID is not set")
    ELSE IF stepID = "" THEN Errorf("stepID is not set")
    ELSE IF report = "" THEN Errorf("report is not set")
    ELSE Nil

validateWriteSavingsArgs(c, stepID) ==
    IF validateTiArgs(c) # Nil THEN validateTiArgs(c)
    ELSE IF validateBasicArgs(c) # Nil THEN validateBasicArgs(c)
    ELSE IF c.BuildID = "" THEN Errorf("buildID is not set")
    ELSE IF c.StageID = "" THEN Errorf("stageID is not set")
    ELSE IF stepID = "" THEN Errorf("stepID is not set")
    ELSE Nil

validateDownloadLinkArgs(c, language) ==
    IF validateTiArgs(c) # Nil THEN validateTiArgs(c)
    ELSE IF language = "" THEN Errorf("language is not set")
    ELSE Nil

\* validateSelectTestsArgs testing the target branch before the source branch
validateSelectTestsArgs_TargetFirst(c, stepID, source, target) ==
    IF validateTiArgs(c) # Nil THEN validateTiArgs(c)
    ELSE IF validateBasicArgs(c) # Nil THEN validateBasicArgs(c)
    ELSE IF c.BuildID = "" THEN Errorf("buildID is not set")
    ELSE IF c.StageID = "" THEN Errorf("stageID is not set")
    ELSE IF stepID = "" THEN Errorf("stepID is not set")
    ELSE IF target = "" THEN Errorf("target branch is not set")
    ELSE IF source = "" THEN Errorf("source branch is not set")
    ELSE Nil

validateSelectTestsArgs(c, stepID, source, target) ==
    IF validateTiArgs(c) # Nil THEN validateTiArgs(c)
    ELSE IF validateBasicArgs(c) # Nil THEN validateBasicArgs(c)
    ELSE IF c.BuildID = "" THEN Errorf("buildID is not set")
    ELSE IF c.StageID = "" THEN Errorf("stageID is not set")
    ELSE IF stepID = "" THEN Errorf("stepID is not set")
    ELSE IF source = "" THEN Errorf("source branch is not set")
    ELSE IF target = "" THEN Errorf("target branch is not set")
    ELSE Nil

validateUploadCgArgs(c, stepID, source, target) ==
    IF validateTiArgs(c) # Nil THEN validateTiArgs(c)
    ELSE IF validateBasicArgs(c) # Nil THEN validateBasicArgs(c)
    ELSE IF c.BuildID = "" THEN Errorf("buildID is not set")
    ELSE IF c.StageID = "" THEN Errorf("stageID is not set")
    ELSE IF stepID = "" THEN Errorf("stepID is not set")
    ELSE IF source = "" THEN Errorf("source branch is not set")
    ELSE IF target = "" THEN Errorf("target branch is not set")
    ELSE Nil

validateGetTestTimesArgs(c) ==
    IF validateTiArgs(c) # Nil THEN validateTiArgs(c)
    ELSE validateBasicArgs(c)

\* validateCommitInfoArgs naming its branch argument "branch"
validateCommitInfoArgs_BranchLabel(c, stepID, branch) ==
    IF validateTiArgs(c) # Nil THEN validateTiArgs(c)
    ELSE IF validateBasicArgs(c) # Nil THEN validateBasicArgs(c)
    ELSE IF c.BuildID = "" THEN Errorf("buildID is not set")
    ELSE IF c.StageID = "" THEN Errorf("stageID is not set")
    ELSE IF stepID = "" THEN Errorf("stepID is not set")
    ELSE IF branch = "" THEN Errorf("branch is not set")
    ELSE Nil

validateCommitInfoArgs(c, stepID, branch) ==
    IF validateTiArgs(c) # Nil THEN validateTiArgs(c)
    ELSE IF validateBasicArgs(c) # Nil THEN validateBasicArgs(c)
    ELSE IF c.BuildID = "" THEN Errorf("buildID is not set")
    ELSE IF c.StageID = "" THEN Errorf("stageID is not set")
    ELSE IF stepID = "" THEN Errorf("stepID is not set")
    ELSE IF branch = "" THEN Errorf("source branch is not set")
    ELSE Nil

validateMLSelectTestArgs(c) ==
    IF validateTiArgs(c) # Nil THEN validateTiArgs(c)
    ELSE validateBasicArgs(c)

(***************************************************************************)
(* The single-attempt primitives.  Each yields the response (its status, 0 *)
(* for no response), the error, the caller's output value after the        *)
(* attempt, whether the request reached the transport, whether a response  *)
(* body is left open, and the requests issued to a redirect location.      *)
(***************************************************************************)
Attempt(res, err, out, sent, bodyOpen) ==
    [res |-> res, err |-> err, out |-> out, sent |-> sent, bodyOpen |-> bodyOpen,
     hops |-> 0]

\* json.Unmarshal(body, out) on a status below 300
Unmarshal(body, out) ==
    IF body = "json" THEN [err |-> Nil, out |-> "filled"]
    ELSE IF body = "mistyped" THEN [err |-> Err("json", 0, "unmarshal type error"), out |-> "partial"]
    ELSE [err |-> Err("json", 0, "syntax error"), out |-> out]

\* http.StatusText(code) for the statuses above
StatusText(code) ==
    CASE code = 200 -> "OK"
      [] code = 204 -> "No Content"
      [] code = 300 -> "Multiple Choices"
      [] code = 302 -> "Found"
      [] code = 404 -> "Not Found"
      [] code = 500 -> "Internal Server Error"
      [] code = 503 -> "Service Unavailable"
      [] OTHER -> ""

\* the error built from a response with status >= 300: an *Error with the
\* status as its Code when there is a body, errors.New of the status text,
\* which has no Code, when there is none
StatusError(status, body) ==
    IF body # "empty"
    THEN IF body = "json"
         THEN Err("Error", status, "payload message")
         ELSE Err("Error", status, "raw body")
    ELSE Err("errors", 0, StatusText(status))

\* the statuses on which an http.Client consults its redirect policy
Redirects == {301, 302, 303, 307, 308}

\* c.client().Do(req) with hc the client: the answer handed back to the
\* caller and the requests issued to a redirect location.  With the policy
\* http.ErrUseLastResponse the redirect response itself is handed back; a
\* client that follows issues a second request, answered here with 200
Do(hc, ans) ==
    IF ans.fail \in {"read", "none"} /\ ans.status \in Redirects
          /\ hc.CheckRedirect # ErrUseLastResponse
    THEN [ans |-> [ans EXCEPT !.status = StatusOK], hops |-> 1]
    ELSE [ans |-> ans, hops |-> 0]

\* do without the early return on StatusNoContent
do_No204Return(hasIn, out, ans) ==
    IF hasIn /\ ans.fail = "encode"
    THEN Attempt(0, Err("encode", 0, "json encode"), out, FALSE, FALSE)
    ELSE IF ans.fail = "build"
    THEN Attempt(0, Err("build", 0, "new request"), out, FALSE, FALSE)
    ELSE LET d == Do(httpClient(client), ans)
             res == d.ans
         IN  [IF res.fail = "send"
             THEN Attempt(0, Err("send", 0, "transport"), out, TRUE, FALSE)
             ELSE IF res.fail = "read"
             THEN Attempt(res.status, Err("read", 0, "read body"), out, TRUE, FALSE)
             ELSE IF res.status >= StatusMultipleChoices
             THEN Attempt(res.status, StatusError(res.status, res.body), out, TRUE, FALSE)
             ELSE IF out = "none"
             THEN Attempt(res.status, Nil, out, TRUE, FALSE)
             ELSE LET u == Unmarshal(res.body, out)
                  IN  Attempt(res.status, u.err, u.out, TRUE, FALSE)
              EXCEPT !.hops = d.hops]

do(hasIn, out, ans) ==
    IF hasIn /\ ans.fail = "encode"
    THEN Attempt(0, Err("encode", 0, "json encode"), out, FALSE, FALSE)
    ELSE IF ans.fail = "build"
    THEN Attempt(0, Err("build", 0, "new request"), out, FALSE, FALSE)
    ELSE LET d == Do(httpClient(client), ans)
             res == d.ans
         IN  [IF res.fail = "send"
             THEN Attempt(0, Err("send", 0, "transport"), out, TRUE, FALSE)
             ELSE IF res.status = StatusNoContent
             THEN Attempt(res.status, Nil, out, TRUE, FALSE)
             ELSE IF res.fail = "read"
             THEN Attempt(res.status, Err("read", 0, "read body"), out, TRUE, FALSE)
             ELSE IF res.status >= StatusMultipleChoices
             THEN Attempt(res.status, StatusError(res.status, res.body), out, TRUE, FALSE)
             ELSE IF out = "none"
             THEN Attempt(res.status, Nil, out, TRUE, FALSE)
             ELSE LET u == Unmarshal(res.body, out)
                  IN  Attempt(res.status, u.err, u.out, TRUE, FALSE)
              EXCEPT !.hops = d.hops]

open(ans) ==
    IF ans.fail = "build"
    THEN Attempt(0, Err("build", 0, "new request"), "none", FALSE, FALSE)
    ELSE LET d == Do(httpClient(client), ans)
             res == d.ans
         IN  [IF res.fail = "send"
             THEN Attempt(0, Err("send", 0, "transport"), "none", TRUE, FALSE)
             ELSE Attempt(res.status, Nil, "none", TRUE, TRUE)
              EXCEPT !.hops = d.hops]

(***************************************************************************)
(* A call: one invocation of an operation of the client.                   *)
(***************************************************************************)
\* a types.SummaryRequest: the zero value, and no request at all
ZeroRequest ==
    [OrgID |-> "", ProjectID |-> "", PipelineID |-> "", BuildID |-> "",
     StageID |-> "", StepID |-> "", ReportType |-> "", AllStages |-> FALSE]
NoRequest == [nil |-> TRUE]

\* no function applied yet
NoResult == [fn |-> "none"]

NoArgs ==
    [stepID |-> "-", report |-> "-", language |-> "-", source |-> "-",
     target |-> "-", branch |-> "-", payload |-> "-", request |-> NoRequest]

IdleCall ==
    [op |-> "none", pc |-> "idle", args |-> NoArgs,
     ctx |-> "live", ctxAtStart |-> "live", cancelledAfter |-> 0,
     isOpen |-> FALSE, retryOnServerErrors |-> FALSE, hasIn |-> FALSE,
     b |-> 0,
     attempts |-> 0, sent |-> 0, n5xx |-> 0, consults |-> 0, stops |-> 0,
     sleeps |-> 0, unclosed |-> 0,
     via |-> NilClient, hops |-> 0, reader |-> "-", body |-> "-", firstBody |-> "-",
     res |-> 0, err |-> Nil, out |-> "none", retRes |-> 0, retErr |-> Nil]

\* the operation returns err to its caller before any attempt
Return(c, op, args, out, err) ==
    [c EXCEPT !.op = op, !.args = args, !.ctxAtStart = c.ctx, !.pc = "done",
              !.out = out, !.retErr = err]

\* backoff.NewExponentialBackOff() handing out again the schedule created
\* last, once there is one
NewExponentialBackOff_Shared ==
    IF backoffs = <<>> THEN Len(backoffs) + 1 ELSE Len(backoffs)

\* backoff.NewExponentialBackOff(): the reference to a schedule that did not
\* exist before
NewExponentialBackOff == Len(backoffs) + 1

\* createBackoff(maxElapsedTime): the reference and the schedule behind it;
\* users are the calls that have consulted the schedule so far
createBackoff(maxElapsedTime) ==
    [ref |-> NewExponentialBackOff,
     exp |-> [MaxElapsedTime |-> maxElapsedTime, expired |-> FALSE, users |-> {}]]

\* the schedules once backoff.exp is stored behind backoff.ref
Store(backoff) ==
    [k \in 1..(IF backoff.ref > Len(backoffs) THEN backoff.ref ELSE Len(backoffs)) |->
        IF k = backoff.ref THEN backoff.exp ELSE backoffs[k]]

\* c.retry(ctx, ..., in, out, isOpen, retryOnServerErrors, backoff), b the
\* reference to the schedule
retry(c, op, args, hasIn, out, isOpen, retryOnServerErrors, b) ==
    [c EXCEPT !.op = op, !.args = args, !.ctxAtStart = c.ctx, !.pc = "attempt",
              !.hasIn = hasIn, !.out = out, !.isOpen = isOpen,
              !.retryOnServerErrors = retryOnServerErrors,
              !.b = b]

\* the answers one attempt of do() can meet: serializing fails only when
\* there is an input
DoAnswers(hasIn) == {a \in Answers : a.fail = "encode" => hasIn}

\* the answers one attempt of open() can meet: it neither serializes an
\* input nor reads the body
OpenAnswers == {a \in Answers : a.fail \in {"build", "send", "none"} /\ a.body = "empty"}

\* an operation that calls c.do(ctx, ...) or c.open(ctx, ...) itself, with
\* the outcome r, and returns err
once(c, op, args, r, err) ==
    [c EXCEPT !.op = op, !.args = args, !.ctxAtStart = c.ctx, !.pc = "done",
              !.attempts = 1, !.sent = IF r.sent THEN 1 ELSE 0,
              !.via = IF r.sent THEN httpClient(client) ELSE @,
              !.hops = r.hops,
              !.body = IF r.sent THEN "none" ELSE @,
              !.firstBody = IF r.sent THEN "none" ELSE @,
              !.unclosed = IF r.bodyOpen THEN 1 ELSE 0,
              !.res = r.res, !.err = r.err, !.out = r.out,
              !.retRes = r.res, !.retErr = err]

(***************************************************************************)
(* The operations, up to their first network call.                         *)
(***************************************************************************)
Write(i, stepID, report) ==
    /\ calls[i].pc = "idle"
    /\ LET args == [NoArgs EXCEPT !.stepID = stepID, !.report = report]
           err == validateWriteArgs(client, stepID, report)
           backoff == createBackoff(10 * 60)
       IN  /\ calls' = [calls EXCEPT ![i] =
                   IF err # Nil THEN Return(@, "Write", args, "none", err)
                   ELSE retry(@, "Write", args, TRUE, "none", FALSE, FALSE, backoff.ref)]
           /\ backoffs' = IF err # Nil THEN backoffs ELSE Store(backoff)
    /\ UNCHANGED <<client, requests, result>>

DownloadLink(i, language) ==
    /\ calls[i].pc = "idle"
    /\ LET args == [NoArgs EXCEPT !.language = language]
           err == validateDownloadLinkArgs(client, language)
           backoff == createBackoff(5 * 60)
       IN  /\ calls' = [calls EXCEPT ![i] =
                   IF err # Nil THEN Return(@, "DownloadLink", args, "zero", err)
                   ELSE retry(@, "DownloadLink", args, FALSE, "zero", FALSE, TRUE, backoff.ref)]
           /\ backoffs' = IF err # Nil THEN backoffs ELSE Store(backoff)
    /\ UNCHANGED <<client, requests, result>>

SelectTests(i, stepID, source, target) ==
    /\ calls[i].pc = "idle"
    /\ LET args == [NoArgs EXCEPT !.stepID = stepID, !.source = source, !.target = target]
           err == validateSelectTestsArgs(client, stepID, source, target)
           backoff == createBackoff(10 * 60)
       IN  /\ calls' = [calls EXCEPT ![i] =
                   IF err # Nil THEN Return(@, "SelectTests", args, "zero", err)
                   ELSE retry(@, "SelectTests", args, TRUE, "zero", FALSE, FALSE, backoff.ref)]
           /\ backoffs' = IF err # Nil THEN backoffs ELSE Store(backoff)
    /\ UNCHANGED <<client, requests, result>>

\* uploadCGInternal going on to the upload whatever the validator says
uploadCGInternal_NoValidate(i, op, stepID, source, target) ==
    /\ calls[i].pc = "idle"
    /\ LET args == [NoArgs EXCEPT !.stepID = stepID, !.source = source, !.target = target]
           backoff == createBackoff(45 * 60)
       IN  /\ calls' = [calls EXCEPT ![i] =
                   retry(@, op, args, TRUE, "none", FALSE, TRUE, backoff.ref)]
           /\ backoffs' = Store(backoff)
    /\ UNCHANGED <<client, requests, result>>

uploadCGInternal(i, op, stepID, source, target) ==
    /\ calls[i].pc = "idle"
    /\ LET args == [NoArgs EXCEPT !.stepID = stepID, !.source = source, !.target = target]
           err == validateUploadCgArgs(client, stepID, source, target)
           backoff == createBackoff(45 * 60)
       IN  /\ calls' = [calls EXCEPT ![i] =
                   IF err # Nil THEN Return(@, op, args, "none", err)
                   ELSE retry(@, op, args, TRUE, "none", FALSE, TRUE, backoff.ref)]
           /\ backoffs' = IF err # Nil THEN backoffs ELSE Store(backoff)
    /\ UNCHANGED <<client, requests, result>>

UploadCgFailedTest(i, stepID, source, target) ==
    uploadCGInternal(i, "UploadCgFailedTest", stepID, source, target)

UploadCg(i, stepID, source, target) ==
    uploadCGInternal(i, "UploadCg", stepID, source, target)

\* payload: "string" for a string payload, "other" for any other shape
\* strings.NewReader(payloadStr)
NewReader(payloadStr) == "unread"

UploadCgV2(i, payload) ==
    /\ calls[i].pc = "idle"
    /\ LET args == [NoArgs EXCEPT !.payload = payload]
           err == validateTiArgs(client)
           backoff == createBackoff(45 * 60)
       IN  /\ calls' = [calls EXCEPT ![i] =
                   IF err # Nil THEN Return(@, "UploadCgV2", args, "none", err)
                   ELSE IF payload = "string"
                   THEN [retry(@, "UploadCgV2", args, TRUE, "none", TRUE, TRUE, backoff.ref)
                            EXCEPT !.reader = NewReader(payload)]
                   ELSE Return(@, "UploadCgV2", args, "none",
                               Err("errors", 0, "payload type not supported"))]
           /\ backoffs' = IF err # Nil THEN backoffs ELSE Store(backoff)
    /\ UNCHANGED <<client, requests, result>>

GetTestTimes(i, stepID) ==
    /\ calls[i].pc = "idle"
    /\ LET args == [NoArgs EXCEPT !.stepID = stepID]
           err == validateGetTestTimesArgs(client)
           backoff == createBackoff(10 * 60)
       IN  /\ calls' = [calls EXCEPT ![i] =
                   IF err # Nil THEN Return(@, "GetTestTimes", args, "zero", err)
                   ELSE retry(@, "GetTestTimes", args, TRUE, "zero", FALSE, TRUE, backoff.ref)]
           /\ backoffs' = IF err # Nil THEN backoffs ELSE Store(backoff)
    /\ UNCHANGED <<client, requests, result>>

CommitInfo(i, stepID, branch) ==
    /\ calls[i].pc = "idle"
    /\ LET args == [NoArgs EXCEPT !.stepID = stepID, !.branch = branch]
           err == validateCommitInfoArgs(client, stepID, branch)
           backoff == createBackoff(5 * 60)
       IN  /\ calls' = [calls EXCEPT ![i] =
                   IF err # Nil THEN Return(@, "CommitInfo", args, "zero", err)
                   ELSE retry(@, "CommitInfo", args, FALSE, "zero", FALSE, TRUE, backoff.ref)]
           /\ backoffs' = IF err # Nil THEN backoffs ELSE Store(backoff)
    /\ UNCHANGED <<client, requests, result>>

\* MLSelectTests going through the retrying wrapper
MLSelectTests_Retried(i, stepID, source, target, ans) ==
    /\ calls[i].pc = "idle"
    /\ ans \in DoAnswers(TRUE)
    /\ LET args == [NoArgs EXCEPT !.stepID = stepID, !.source = source, !.target = target]
           err == validateMLSelectTestArgs(client)
           backoff == createBackoff(5 * 60)
       IN  /\ calls' = [calls EXCEPT ![i] =
                   IF err # Nil THEN Return(@, "MLSelectTests", args, "zero", err)
                   ELSE retry(@, "MLSelectTests", args, TRUE, "zero", FALSE, TRUE, backoff.ref)]
           /\ backoffs' = IF err # Nil THEN backoffs ELSE Store(backoff)
    /\ UNCHANGED <<client, requests, result>>

MLSelectTests(i, stepID, source, target, ans) ==
    /\ calls[i].pc = "idle"
    /\ ans \in DoAnswers(TRUE)
    /\ LET r == do(TRUE, "zero", ans)
           args == [NoArgs EXCEPT !.stepID = stepID, !.source = source, !.target = target]
           err == validateMLSelectTestArgs(client)
       IN  calls' = [calls EXCEPT ![i] =
               IF err # Nil THEN Return(@, "MLSelectTests", args, "zero", err)
               ELSE once(@, "MLSelectTests", args, r, r.err)]
    /\ UNCHANGED <<client, backoffs, requests, result>>

\* SetBasicArguments writing the client's identifiers over those of the
\* request
SetBasicArguments_Overwrite(c, summaryRequest) ==
    LET r4 == [summaryRequest EXCEPT !.OrgID = c.OrgID, !.ProjectID = c.ProjectID,
                                     !.PipelineID = c.PipelineID, !.BuildID = c.BuildID]
        r5 == IF r4.ReportType = "" THEN [r4 EXCEPT !.ReportType = "junit"] ELSE r4
    IN  IF r5.AllStages THEN [r5 EXCEPT !.StageID = "", !.StepID = ""] ELSE r5

\* c.SetBasicArguments(summaryRequest): the request behind the pointer
\* after the call
SetBasicArguments(c, summaryRequest) ==
    LET r1 == IF summaryRequest.OrgID = ""
              THEN [summaryRequest EXCEPT !.OrgID = c.OrgID] ELSE summaryRequest
        r2 == IF r1.ProjectID = "" THEN [r1 EXCEPT !.ProjectID = c.ProjectID] ELSE r1
        r3 == IF r2.PipelineID = "" THEN [r2 EXCEPT !.PipelineID = c.PipelineID] ELSE r2
        r4 == IF r3.BuildID = "" THEN [r3 EXCEPT !.BuildID = c.BuildID] ELSE r3
        r5 == IF r4.ReportType = "" THEN [r4 EXCEPT !.ReportType = "junit"] ELSE r4
    IN  IF r5.AllStages THEN [r5 EXCEPT !.StageID = "", !.StepID = ""] ELSE r5

\* Summary filling the defaults into the caller's request, as it would
\* with a request received by reference
Summary_ByReference(i) ==
    /\ calls[i].pc = "idle"
    /\ LET err == validateMLSelectTestArgs(client)
           filled == SetBasicArguments(client, requests[i])
           args == [NoArgs EXCEPT !.request = filled]
           backoff == createBackoff(5 * 60)
       IN  /\ calls' = [calls EXCEPT ![i] =
                   IF err # Nil THEN Return(@, "Summary", NoArgs, "zero", err)
                   ELSE retry(@, "Summary", args, FALSE, "zero", FALSE, TRUE, backoff.ref)]
           /\ backoffs' = IF err # Nil THEN backoffs ELSE Store(backoff)
           /\ requests' = IF err # Nil THEN requests
                          ELSE [requests EXCEPT ![i] = filled]
    /\ UNCHANGED <<client, result>>

\* Summary receives the caller's request requests[i] by value; the request
\* it fills and builds the path from is its own copy
Summary(i) ==
    /\ calls[i].pc = "idle"
    /\ LET summaryRequest == requests[i]
           err == validateMLSelectTestArgs(client)
           args == [NoArgs EXCEPT !.request = SetBasicArguments(client, summaryRequest)]
           backoff == createBackoff(5 * 60)
       IN  /\ calls' = [calls EXCEPT ![i] =
                   IF err # Nil THEN Return(@, "Summary", NoArgs, "zero", err)
                   ELSE retry(@, "Summary", args, FALSE, "zero", FALSE, TRUE, backoff.ref)]
           /\ backoffs' = IF err # Nil THEN backoffs ELSE Store(backoff)
    /\ UNCHANGED <<client, requests, result>>

\* GetTestCases receives the caller's request by value, requests[i] its
\* BasicInfo
GetTestCases(i) ==
    /\ calls[i].pc = "idle"
    /\ LET testCasesRequest == [BasicInfo |-> requests[i]]
           err == validateMLSelectTestArgs(client)
           args == [NoArgs EXCEPT
                       !.request = SetBasicArguments(client, testCasesRequest.BasicInfo)]
           backoff == createBackoff(5 * 60)
       IN  /\ calls' = [calls EXCEPT ![i] =
                   IF err # Nil THEN Return(@, "GetTestCases", NoArgs, "zero", err)
                   ELSE retry(@, "GetTestCases", args, FALSE, "zero", FALSE, TRUE, backoff.ref)]
           /\ backoffs' = IF err # Nil THEN backoffs ELSE Store(backoff)
    /\ UNCHANGED <<client, requests, result>>

WriteSavings(i, stepID, ans) ==
    /\ calls[i].pc = "idle"
    /\ ans \in DoAnswers(TRUE)
    /\ LET r == do(TRUE, "none", ans)
           args == [NoArgs EXCEPT !.stepID = stepID]
           err == validateWriteSavingsArgs(client, stepID)
       IN  calls' = [calls EXCEPT ![i] =
               IF err # Nil THEN Return(@, "WriteSavings", args, "none", err)
               ELSE once(@, "WriteSavings", args, r, r.err)]
    /\ UNCHANGED <<client, backoffs, requests, result>>

\* Healthz accepting every status below 300
Healthz_Any2xx(i, ans) ==
    /\ calls[i].pc = "idle"
    /\ ans \in DoAnswers(FALSE)
    /\ LET r == do(FALSE, "none", ans)
           err == IF r.err # Nil THEN r.err
                  ELSE IF r.res >= StatusMultipleChoices
                  THEN Err("healthz", r.res, "TI Healthz Ping failed. Status Code:")
                  ELSE Nil
       IN  calls' = [calls EXCEPT ![i] = once(@, "Healthz", NoArgs, r, err)]
    /\ UNCHANGED <<client, backoffs, requests, result>>

Healthz(i, ans) ==
    /\ calls[i].pc = "idle"
    /\ ans \in DoAnswers(FALSE)
    /\ LET r == do(FALSE, "none", ans)
           err == IF r.err # Nil THEN r.err
                  ELSE IF r.res # StatusOK
                  THEN Err("healthz", r.res, "TI Healthz Ping failed. Status Code:")
                  ELSE Nil
       IN  calls' = [calls EXCEPT ![i] = once(@, "Healthz", NoArgs, r, err)]
    /\ UNCHANGED <<client, backoffs, requests, result>>

\* resp.Body of a nil resp is a nil pointer dereference: the call panics
DownloadAgent(i, ans) ==
    /\ calls[i].pc = "idle"
    /\ ans \in OpenAnswers
    /\ LET r == open(ans)
       IN  calls' = [calls EXCEPT ![i] =
               IF r.res = 0
               THEN [once(@, "DownloadAgent", NoArgs, r, r.err) EXCEPT !.pc = "panic"]
               ELSE once(@, "DownloadAgent", NoArgs, r, r.err)]
    /\ UNCHANGED <<client, backoffs, requests, result>>

(***************************************************************************)
(* The caller's context and the clock of the backoff schedule.             *)
(***************************************************************************)
Running(c) == c.pc \in {"attempt", "decide", "sleep"}

\* the context ends; cancelledAfter remembers the number of attempts
\* completed when it ends while the wrapper is between two attempts
ctxDone(c, how) ==
    [c EXCEPT !.ctx = how,
              !.cancelledAfter = IF c.pc \in {"decide", "sleep"} THEN c.attempts ELSE 0]

\* the caller cancels the context
CtxCancel(i) ==
    /\ calls[i].pc \in {"idle", "attempt", "decide", "sleep"}
    /\ calls[i].ctx = "live"
    /\ calls' = [calls EXCEPT ![i] = ctxDone(@, "canceled")]
    /\ UNCHANGED <<client, backoffs, requests, result>>

\* the context's deadline passes
CtxDeadline(i) ==
    /\ calls[i].pc \in {"idle", "attempt", "decide", "sleep"}
    /\ calls[i].ctx = "live"
    /\ calls' = [calls EXCEPT ![i] = ctxDone(@, "deadline")]
    /\ UNCHANGED <<client, backoffs, requests, result>>

\* the time elapsed since createBackoff exceeds the MaxElapsedTime of the
\* schedule of call i
BudgetElapses(i) ==
    /\ Running(calls[i])
    /\ backoffs[calls[i].b].MaxElapsedTime # 0
    /\ ~backoffs[calls[i].b].expired
    /\ backoffs' = [backoffs EXCEPT ![calls[i].b].expired = TRUE]
    /\ UNCHANGED <<client, calls, requests, result>>

(***************************************************************************)
(* The retrying wrapper.                                                   *)
(***************************************************************************)
Stop == "stop"

\* b.NextBackOff() of a schedule that never returns Stop
NextBackOff_NeverStops(c) == "duration"

\* b.NextBackOff(): Stop once the elapsed time exceeds a non-zero
\* MaxElapsedTime, a duration to sleep otherwise
NextBackOff(c) ==
    LET b == backoffs[c.b]
    IN  IF b.MaxElapsedTime # 0 /\ b.expired THEN Stop ELSE "duration"

\* retry returns (res, err); the operation returns err to its caller
retryReturn(c, res, err) == [c EXCEPT !.pc = "done", !.retRes = res, !.retErr = err]

\* retrySleep continuing with the next attempt at once
retrySleep_NoSleep(c) == [c EXCEPT !.pc = "attempt", !.res = 0, !.err = Nil]

\* time.Sleep(duration); continue
retrySleep(c) == [c EXCEPT !.pc = "sleep"]

\* the body of the request http.NewRequestWithContext builds from a
\* *strings.Reader: what is left unread of the string at that time
RequestBody(reader) == IF reader = "unread" THEN "payload" ELSE "empty"

\* the reader once a request built from it has been written to the server
Drained(reader) == IF reader = "-" THEN reader ELSE "drained"

\* one attempt: c.do(...) or c.open(...); the reader handed to open is the
\* one the operation created, read by every attempt
attempted(c, ans) ==
    LET r == IF ~c.isOpen THEN do(c.hasIn, c.out, ans) ELSE open(ans)
        body == IF c.isOpen THEN RequestBody(c.reader)
                ELSE IF c.hasIn THEN "encoded" ELSE "none"
    IN  [c EXCEPT !.pc = "decide",
                  !.attempts = @ + 1,
                  !.sent = @ + (IF r.sent THEN 1 ELSE 0),
                  !.via = IF r.sent THEN httpClient(client) ELSE @,
                  !.hops = @ + r.hops,
                  !.body = IF ~r.sent THEN @ ELSE body,
                  !.firstBody = IF r.sent /\ c.sent = 0 THEN body ELSE @,
                  !.reader = IF c.isOpen /\ r.res # 0 THEN Drained(@) ELSE @,
                  !.unclosed = @ + (IF r.bodyOpen THEN 1 ELSE 0),
                  !.n5xx = @ + (IF r.res >= StatusInternalServerError THEN 1 ELSE 0),
                  !.res = r.res,
                  !.err = r.err,
                  !.out = IF c.isOpen THEN c.out ELSE r.out]

retryAttempt(i, ans) ==
    /\ calls[i].pc = "attempt"
    /\ calls[i].attempts < MaxAttempts
    /\ ans \in (IF calls[i].isOpen THEN OpenAnswers ELSE DoAnswers(calls[i].hasIn))
    /\ calls' = [calls EXCEPT ![i] = attempted(@, ans)]
    /\ UNCHANGED <<client, backoffs, requests, result>>

\* retryDecide with the server-error test written "> 500"
retryDecide_Above500(c) ==
    IF CtxErr(c.ctx) # Nil
    THEN retryReturn(c, c.res, CtxErr(c.ctx))
    ELSE LET duration == NextBackOff(c)
             d == [c EXCEPT !.consults = @ + 1,
                            !.stops = @ + (IF duration = Stop THEN 1 ELSE 0)]
         IN  IF c.res # 0
             THEN IF c.res > StatusInternalServerError /\ c.retryOnServerErrors
                  THEN IF duration = Stop
                       THEN retryReturn(d, 0, c.err)
                       ELSE retrySleep(d)
                  ELSE retryReturn(d, c.res, c.err)
             ELSE IF c.err # Nil
             THEN IF duration = Stop
                  THEN retryReturn(d, 0, c.err)
                  ELSE retrySleep(d)
             ELSE retryReturn(d, c.res, c.err)

\* retryDecide without the test of retryOnServerErrors
retryDecide_IgnoreFlag(c) ==
    IF CtxErr(c.ctx) # Nil
    THEN retryReturn(c, c.res, CtxErr(c.ctx))
    ELSE LET duration == NextBackOff(c)
             d == [c EXCEPT !.consults = @ + 1,
                            !.stops = @ + (IF duration = Stop THEN 1 ELSE 0)]
         IN  IF c.res # 0
             THEN IF c.res >= StatusInternalServerError
                  THEN IF duration = Stop
                       THEN retryReturn(d, 0, c.err)
                       ELSE retrySleep(d)
                  ELSE retryReturn(d, c.res, c.err)
             ELSE IF c.err # Nil
             THEN IF duration = Stop
                  THEN retryReturn(d, 0, c.err)
                  ELSE retrySleep(d)
             ELSE retryReturn(d, c.res, c.err)

\* retryDecide without the test of ctx.Err()
retryDecide_NoCtxCheck(c) ==
    LET duration == NextBackOff(c)
        d == [c EXCEPT !.consults = @ + 1,
                       !.stops = @ + (IF duration = Stop THEN 1 ELSE 0)]
    IN  IF c.res # 0
        THEN IF c.res >= StatusInternalServerError /\ c.retryOnServerErrors
             THEN IF duration = Stop
                  THEN retryReturn(d, 0, c.err)
                  ELSE retrySleep(d)
             ELSE retryReturn(d, c.res, c.err)
        ELSE IF c.err # Nil
        THEN IF duration = Stop
             THEN retryReturn(d, 0, c.err)
             ELSE retrySleep(d)
        ELSE retryReturn(d, c.res, c.err)

\* retryDecide with b.NextBackOff() called before the test of ctx.Err()
retryDecide_BackoffFirst(c) ==
    LET duration == NextBackOff(c)
        d == [c EXCEPT !.consults = @ + 1,
                       !.stops = @ + (IF duration = Stop THEN 1 ELSE 0)]
    IN  IF CtxErr(c.ctx) # Nil
        THEN retryReturn(d, c.res, CtxErr(c.ctx))
        ELSE IF c.res # 0
        THEN IF c.res >= StatusInternalServerError /\ c.retryOnServerErrors
             THEN IF duration = Stop
                  THEN retryReturn(d, 0, c.err)
                  ELSE retrySleep(d)
             ELSE retryReturn(d, c.res, c.err)
        ELSE IF c.err # Nil
        THEN IF duration = Stop
             THEN retryReturn(d, 0, c.err)
             ELSE retrySleep(d)
        ELSE retryReturn(d, c.res, c.err)

\* retryDecide retrying every response from 400 up
retryDecide_From400(c) ==
    IF CtxErr(c.ctx) # Nil
    THEN retryReturn(c, c.res, CtxErr(c.ctx))
    ELSE LET duration == NextBackOff(c)
             d == [c EXCEPT !.consults = @ + 1,
                            !.stops = @ + (IF duration = Stop THEN 1 ELSE 0)]
         IN  IF c.res # 0
             THEN IF c.res >= 400 /\ c.retryOnServerErrors
                  THEN IF duration = Stop
                       THEN retryReturn(d, 0, c.err)
                       ELSE retrySleep(d)
                  ELSE retryReturn(d, c.res, c.err)
             ELSE IF c.err # Nil
             THEN IF duration = Stop
                  THEN retryReturn(d, 0, c.err)
                  ELSE retrySleep(d)
             ELSE retryReturn(d, c.res, c.err)

\* retryDecide retrying a failure without a response only for the
\* operations that retry server errors
retryDecide_FailureNeedsFlag(c) ==
    IF CtxErr(c.ctx) # Nil
    THEN retryReturn(c, c.res, CtxErr(c.ctx))
    ELSE LET duration == NextBackOff(c)
             d == [c EXCEPT !.consults = @ + 1,
                            !.stops = @ + (IF duration = Stop THEN 1 ELSE 0)]
         IN  IF c.res # 0
             THEN IF c.res >= StatusInternalServerError /\ c.retryOnServerErrors
                  THEN IF duration = Stop
                       THEN retryReturn(d, 0, c.err)
                       ELSE retrySleep(d)
                  ELSE retryReturn(d, c.res, c.err)
             ELSE IF c.err # Nil /\ c.retryOnServerErrors
             THEN IF duration = Stop
                  THEN retryReturn(d, 0, c.err)
                  ELSE retrySleep(d)
             ELSE retryReturn(d, c.res, c.err)

\* the rest of the loop body, after the attempt has returned
retryDecide(c) ==
    IF CtxErr(c.ctx) # Nil
    THEN retryReturn(c, c.res, CtxErr(c.ctx))
    ELSE LET duration == NextBackOff(c)
             d == [c EXCEPT !.consults = @ + 1,
                            !.stops = @ + (IF duration = Stop THEN 1 ELSE 0)]
         IN  IF c.res # 0
             THEN IF c.res >= StatusInternalServerError /\ c.retryOnServerErrors
                  THEN IF duration = Stop
                       THEN retryReturn(d, 0, c.err)
                       ELSE retrySleep(d)
                  ELSE retryReturn(d, c.res, c.err)
             ELSE IF c.err # Nil
             THEN IF duration = Stop
                  THEN retryReturn(d, 0, c.err)
                  ELSE retrySleep(d)
             ELSE retryReturn(d, c.res, c.err)

retryLoop(i) ==
    /\ calls[i].pc = "decide"
    /\ calls' = [calls EXCEPT ![i] = retryDecide(@)]
    /\ backoffs' = IF retryDecide(calls[i]).consults # calls[i].consults
                   THEN [backoffs EXCEPT ![calls[i].b].users = @ \cup {i}]
                   ELSE backoffs
    /\ UNCHANGED <<client, requests, result>>

\* the sleep ends and the loop continues with the next iteration, whose res
\* and err are fresh variables
retryContinue(i) ==
    /\ calls[i].pc = "sleep"
    /\ calls' = [calls EXCEPT ![i].pc = "attempt", ![i].sleeps = @ + 1,
                              ![i].res = 0, ![i].err = Nil]
    /\ UNCHANGED <<client, backoffs, requests, result>>

(***************************************************************************)
(* The specifications.  Spec follows one call on a client whose fields are *)
(* all set through the retrying wrapper; SpecArgs runs every operation on  *)
(* every client, up to the operation's first network call.                 *)
(***************************************************************************)
Clients ==
    {NewHTTPClient(e, t, a, o, p, l, b, s, "x", "x", "x", FALSE, "", "", "", BareOS) :
        e \in EndpointInputs, t \in Str, a \in Str, o \in Str, p \in Str,
        l \in Str, b \in Str, s \in Str}

Calls == DOMAIN calls

Init ==
    /\ client \in {c \in Clients : validateWriteArgs(c, "x", "x") = Nil}
    /\ calls = [i \in {1} |-> IdleCall]
    /\ backoffs = <<>>
    /\ requests = [i \in DOMAIN calls |-> ZeroRequest]
    /\ result = NoResult

\* the operations, with their arguments drawn from the values
Operation ==
    \/ \E i \in Calls, stepID \in Str, report \in Str : Write(i, stepID, report)
    \/ \E i \in Calls, language \in Str : DownloadLink(i, language)
    \/ \E i \in Calls, stepID \in Str, source \in Str, target \in Str :
          SelectTests(i, stepID, source, target)
    \/ \E i \in Calls, stepID \in Str, source \in Str, target \in Str :
          UploadCgFailedTest(i, stepID, source, target)
    \/ \E i \in Calls, stepID \in Str, source \in Str, target \in Str :
          UploadCg(i, stepID, source, target)
    \/ \E i \in Calls, payload \in {"string", "other"} : UploadCgV2(i, payload)
    \/ \E i \in Calls, stepID \in Str : GetTestTimes(i, stepID)
    \/ \E i \in Calls, stepID \in Str, branch \in Str : CommitInfo(i, stepID, branch)
    \/ \E i \in Calls, stepID \in Str, ans \in Answers :
          MLSelectTests(i, stepID, "x", "x", ans)
    \/ \E i \in Calls : Summary(i)
    \/ \E i \in Calls : GetTestCases(i)
    \/ \E i \in Calls, stepID \in Str, ans \in Answers : WriteSavings(i, stepID, ans)
    \/ \E i \in Calls, ans \in Answers : Healthz(i, ans)
    \/ \E i \in Calls, ans \in Answers : DownloadAgent(i, ans)

\* the caller's context and the clock
Environment ==
    \/ \E i \in Calls : CtxCancel(i)
    \/ \E i \in Calls : CtxDeadline(i)

Next ==
    \/ Operation
    \/ Environment
    \/ \E i \in Calls : BudgetElapses(i)
    \/ \E i \in Calls, ans \in Answers : retryAttempt(i, ans)
    \/ \E i \in Calls : retryLoop(i)
    \/ \E i \in Calls : retryContinue(i)

Spec == Init /\ [][Next]_vars

InitArgs ==
    /\ client \in Clients
    /\ calls = [i \in {1} |-> IdleCall]
    /\ backoffs = <<>>
    /\ requests = [i \in DOMAIN calls |-> ZeroRequest]
    /\ result = NoResult

NextArgs ==
    \/ Operation
    \/ Environment

SpecArgs == InitArgs /\ [][NextArgs]_vars

(***************************************************************************)
(* Properties.                                                             *)
(***************************************************************************)
Live(c) == c.ctx = "live"
Is2xx(status) == status >= 200 /\ status < 300
Is5xx(status) == status >= 500

\* the operations that go through the retrying wrapper
RetriedOps ==
    {"Write", "DownloadLink", "SelectTests", "UploadCgFailedTest", "UploadCg",
     "UploadCgV2", "GetTestTimes", "CommitInfo", "Summary", "GetTestCases"}

\* the call has entered the retrying wrapper
InRetry(c) == c.op \in RetriedOps /\ (c.pc = "done" => c.attempts > 0)

\* every attempt made so far was answered with a status >= 500
Only5xx(c) == c.attempts > 0 /\ c.n5xx = c.attempts

\* every attempt before the last was answered with a status >= 500 and the
\* last with a 2xx
Then2xx(c) == c.attempts > 0 /\ c.n5xx = c.attempts - 1 /\ Is2xx(c.res)

C2_AsStated ==
    \A i \in Calls :
        LET c == calls[i]
        IN  (InRetry(c) /\ ~c.retryOnServerErrors /\ Is5xx(c.res)) =>
               /\ c.pc \in {"decide", "done"}
               /\ c.n5xx = 1
               /\ Only5xx(c) => (c.attempts = 1 /\ c.sleeps = 0)
               /\ c.pc = "done" => (c.retErr = c.err /\ c.retErr # Nil)

\* C2 amended: the same when the context is live as the attempt returns;
\* when it is cancelled or past its deadline the call returns the context's
\* error instead, still after that attempt and without sleeping.
C2_NoRetryOn5xx ==
    \A i \in Calls :
        LET c == calls[i]
        IN  (InRetry(c) /\ ~c.retryOnServerErrors /\ Is5xx(c.res)) =>
               /\ c.pc \in {"decide", "done"}
               /\ c.n5xx = 1
               /\ Only5xx(c) => (c.attempts = 1 /\ c.sleeps = 0)
               /\ (c.pc = "done" /\ Live(c)) => (c.retErr = c.err /\ c.retErr # Nil)
               /\ (c.pc = "done" /\ ~Live(c)) => c.retErr = CtxErr(c.ctx)

\* Write answered 503: the 503-derived error after one attempt
C2_Witness ==
    \E i \in Calls :
        LET c == calls[i]
        IN  /\ c.op = "Write" /\ c.pc = "done" /\ Live(c)
            /\ c.res = 503 /\ c.attempts = 1 /\ c.sleeps = 0
            /\ c.retErr = Err("Error", 503, "payload message")

\* C3: whenever the context is cancelled or past its deadline when an
\* attempt has returned, the wrapper's next step returns the context's error
\* together with that attempt's response: the schedule is not consulted,
\* there is no sleep and no further attempt, whatever the attempt's outcome.
C3_CancelEndsCall ==
    [][\A i \in Calls :
          LET c == calls[i]
              d == calls'[i]
          IN  (InRetry(c) /\ c.pc = "decide" /\ ~Live(c) /\ d.pc # "decide") =>
                 /\ d.pc = "done"
                 /\ d.retErr = CtxErr(c.ctx)
                 /\ d.retRes = c.res
                 /\ d.consults = c.consults
                 /\ d.sleeps = c.sleeps
                 /\ d.attempts = c.attempts]_vars

\* a 5xx on an operation that retries server errors, the context cancelled
\* as the attempt returns: the call ends with the context's error
C3_Witness ==
    \E i \in Calls :
        LET c == calls[i]
        IN  /\ InRetry(c) /\ c.retryOnServerErrors /\ Is5xx(c.res) /\ ~backoffs[c.b].expired
            /\ c.pc = "done" /\ c.ctx = "canceled" /\ c.attempts = 2
            /\ c.consults = 1 /\ c.sleeps = 1
            /\ c.retErr = CtxErr("canceled")

\* C4 as stated: a context cancelled after attempt n has completed and
\* before the sleep that follows it has ended lets no attempt n+1 happen, and
\* the call returns the cancellation error.
C4_AsStated ==
    \A i \in Calls :
        LET c == calls[i]
        IN  (InRetry(c) /\ c.cancelledAfter > 0) =>
               /\ c.attempts = c.cancelledAfter
               /\ c.pc = "done" => c.retErr = CtxErr(c.ctx)

\* C5: a call that enters the retrying wrapper with a context already
\* cancelled or past its deadline makes at most one attempt, consults no
\* schedule, never sleeps, and returns the context's error.
C5_AlreadyCancelled ==
    \A i \in Calls :
        LET c == calls[i]
        IN  (InRetry(c) /\ c.ctxAtStart # "live") =>
               /\ c.attempts <= 1
               /\ c.pc # "sleep"
               /\ c.sleeps = 0
               /\ c.consults = 0
               /\ c.pc = "done" => (c.attempts = 1 /\ c.retErr = CtxErr(c.ctxAtStart))

\* a retried call made with an expired context whose only attempt fails in
\* the transport returns the context's error
C5_Witness ==
    \E i \in Calls :
        LET c == calls[i]
        IN  /\ InRetry(c) /\ c.ctxAtStart = "deadline" /\ c.pc = "done"
            /\ c.attempts = 1 /\ c.res = 0 /\ c.err.kind = "send"
            /\ c.retErr = CtxErr("deadline")

\* the operations that return a result
ResultOps ==
    {"DownloadLink", "SelectTests", "GetTestTimes", "CommitInfo", "MLSelectTests",
     "Summary", "GetTestCases"}

\* C6 as stated: an operation that returns a non-nil error returns the zero
\* value of its result.
C6_AsStated ==
    \A i \in Calls :
        LET c == calls[i]
        IN  (c.op \in ResultOps /\ c.pc = "done" /\ c.retErr # Nil) => c.out = "zero"

\* C11 as stated: every attempt of do whose response has a status >= 300
\* (and a body that could be read) returns an *Error whose Code is that
\* status and whose Message is the payload's message, else the raw body,
\* else (empty body) the status text.
C11_AsStated ==
    \A i \in Calls :
        LET c == calls[i]
        IN  (c.pc \in {"decide", "done"} /\ c.attempts > 0 /\ ~c.isOpen
               /\ c.op # "DownloadAgent" /\ c.res >= StatusMultipleChoices
               /\ c.err.kind # "read") =>
               /\ c.err.kind = "Error"
               /\ c.err.code = c.res
               /\ c.err.msg \in {"payload message", "raw body", StatusText(c.res)}

\* C12: in the retrying wrapper an attempt answered with a status below 500
\* (2xx, 3xx, 4xx) ends the call after that attempt, whatever the
\* operation's retryOnServerErrors: the wrapper goes on to return, it does
\* not sleep and it makes no further attempt.
C12_Below500EndsCall ==
    \A i \in Calls :
        LET c == calls[i]
        IN  (InRetry(c) /\ c.res # 0 /\ c.res < StatusInternalServerError) =>
               /\ c.pc \in {"decide", "done"}
               /\ c.sleeps = c.attempts - 1

\* an operation that retries server errors: 503, then 404 ends the call
C12_Witness ==
    \E i \in Calls :
        LET c == calls[i]
        IN  /\ InRetry(c) /\ c.retryOnServerErrors /\ Live(c)
            /\ c.pc = "done" /\ c.res = 404 /\ c.n5xx = 1
            /\ c.attempts = 2 /\ c.sleeps = 1
            /\ c.retErr = Err("Error", 404, "raw body")

\* the wrapper has given up: the schedule returned Stop on an outcome it
\* would have retried
GaveUp(c) ==
    /\ InRetry(c) /\ c.pc = "done" /\ c.stops > 0
    /\ \/ c.res = 0
       \/ Is5xx(c.res) /\ c.retryOnServerErrors

\* C13 as stated: a retried call (UploadCgV2 included) that gives up because
\* the schedule returns Stop returns the error of its most recent attempt,
\* and that error is not nil.
C13_AsStated ==
    \A i \in Calls :
        LET c == calls[i]
        IN  GaveUp(c) => (c.retErr = c.err /\ c.retErr # Nil)

\* C14: for every operation in the retrying wrapper, retryOnServerErrors or
\* not, an attempt that ends without a response (res = nil, err # nil) while
\* the context is live is followed by a sleep and then another attempt,
\* unless the schedule returns Stop, in which case the call returns that
\* failure.
C14_FailureRetried ==
    [][\A i \in Calls :
          LET c == calls[i]
              d == calls'[i]
          IN  /\ (InRetry(c) /\ c.pc = "decide" /\ Live(c) /\ c.res = 0
                    /\ c.err # Nil /\ d.pc # "decide") =>
                     IF NextBackOff(c) = Stop
                     THEN /\ d.pc = "done"
                          /\ d.retErr = c.err
                          /\ d.attempts = c.attempts
                          /\ d.sleeps = c.sleeps
                     ELSE d.pc = "sleep"
              /\ (InRetry(c) /\ c.pc = "sleep" /\ d.pc # "sleep") =>
                     (d.pc = "attempt" /\ d.sleeps = c.sleeps + 1)
              /\ (InRetry(c) /\ c.pc = "attempt" /\ d.pc # "attempt") =>
                     (d.pc = "decide" /\ d.attempts = c.attempts + 1)]_vars

\* Write, which does not retry server errors: a transport failure, a sleep,
\* a second transport failure on which the schedule returns Stop
C14_Witness ==
    \E i \in Calls :
        LET c == calls[i]
        IN  /\ c.op = "Write" /\ ~c.retryOnServerErrors /\ Live(c)
            /\ c.pc = "done" /\ c.attempts = 2 /\ c.sleeps = 1 /\ c.stops = 1
            /\ c.err.kind = "send" /\ c.retErr = c.err

\* C15 as stated: every response received on behalf of an operation other
\* than DownloadAgent has its body drained and closed before the attempt
\* returns; a call never holds an unclosed body.
C15_AsStated ==
    \A i \in Calls :
        LET c == calls[i]
        IN  c.op # "DownloadAgent" => c.unclosed = 0

\* C16 as stated: Healthz makes exactly one attempt and returns no error if
\* and only if the response status is 200; every other status and every
\* failure without a response gives a non-nil error.
C16_AsStated ==
    \A i \in Calls :
        LET c == calls[i]
        IN  (c.op = "Healthz" /\ c.pc # "idle") =>
               /\ c.pc = "done"
               /\ c.attempts = 1 /\ c.sleeps = 0
               /\ (c.retErr = Nil) <=> (c.res = StatusOK)

\* C16 amended: Healthz makes exactly one attempt and returns no error if and
\* only if the response status is 200 and its body is read without error.
C16_HealthzOnly200 ==
    \A i \in Calls :
        LET c == calls[i]
        IN  (c.op = "Healthz" /\ c.pc # "idle") =>
               /\ c.pc = "done"
               /\ c.attempts = 1 /\ c.sleeps = 0
               /\ (c.retErr = Nil) <=> (c.res = StatusOK /\ c.err.kind # "read")
               /\ c.res = 0 => c.retErr = c.err

\* Healthz answered 204: an error, although do returned none
C16_Witness ==
    \E i \in Calls :
        LET c == calls[i]
        IN  /\ c.op = "Healthz" /\ c.pc = "done" /\ c.attempts = 1
            /\ c.res = StatusNoContent /\ c.err = Nil
            /\ c.retErr.kind = "healthz" /\ c.retErr.code = StatusNoContent

\* the output value an operation hands to do: the zero value of its result,
\* or none
OutOf(op) == IF op \in ResultOps THEN "zero" ELSE "none"

\* C17: an attempt of do that receives status 204 returns no error, whatever
\* the body holds and whether or not it could be read, and leaves the
\* caller's output value as it was.
C17_NoContent ==
    \A i \in Calls :
        LET c == calls[i]
        IN  (c.attempts > 0 /\ c.pc \in {"decide", "done"} /\ ~c.isOpen
               /\ c.op # "DownloadAgent" /\ c.res = StatusNoContent) =>
               /\ c.err = Nil
               /\ c.out = OutOf(c.op)
               /\ (c.pc = "done" /\ Live(c) /\ c.op # "Healthz") => c.retErr = Nil

\* SelectTests answered 204: no error and the zero result
C17_Witness ==
    \E i \in Calls :
        LET c == calls[i]
        IN  /\ c.op = "SelectTests" /\ c.pc = "done" /\ c.attempts = 1
            /\ c.res = StatusNoContent /\ c.retErr = Nil /\ c.out = "zero"

(***************************************************************************)
(* Properties of the validators.                                           *)
(***************************************************************************)
\* the validator each operation calls first (none for Healthz, DownloadAgent)
ValidatedOps ==
    {"Write", "DownloadLink", "SelectTests", "UploadCgFailedTest", "UploadCg",
     "UploadCgV2", "GetTestTimes", "CommitInfo", "MLSelectTests", "Summary",
     "GetTestCases", "WriteSavings"}

ValidationOf(op, cl, args) ==
    CASE op = "Write" -> validateWriteArgs(cl, args.stepID, args.report)
      [] op = "DownloadLink" -> validateDownloadLinkArgs(cl, args.language)
      [] op = "SelectTests" -> validateSelectTestsArgs(cl, args.stepID, args.source, args.target)
      [] op \in {"UploadCg", "UploadCgFailedTest"} ->
            validateUploadCgArgs(cl, args.stepID, args.source, args.target)
      [] op = "UploadCgV2" -> validateTiArgs(cl)
      [] op = "GetTestTimes" -> validateGetTestTimesArgs(cl)
      [] op = "CommitInfo" -> validateCommitInfoArgs(cl, args.stepID, args.branch)
      [] op \in {"MLSelectTests", "Summary", "GetTestCases"} -> validateMLSelectTestArgs(cl)
      [] op = "WriteSavings" -> validateWriteSavingsArgs(cl, args.stepID)
      [] OTHER -> Nil

\* C7: an operation whose validator fails returns the validator's error and
\* performs no network activity: do/open is never invoked, no request is
\* sent, the schedule is not consulted and there is no sleep.
C7_ValidationBeforeNetwork ==
    \A i \in Calls :
        LET c == calls[i]
            e == ValidationOf(c.op, client, c.args)
        IN  (c.op \in ValidatedOps /\ e # Nil) =>
               /\ c.pc = "done"
               /\ c.retErr = e
               /\ c.attempts = 0 /\ c.sent = 0 /\ c.consults = 0 /\ c.sleeps = 0

\* UploadCg with an empty stepID ends with the validator's error, no attempt
C7_Witness ==
    \E i \in Calls :
        LET c == calls[i]
        IN  /\ c.op = "UploadCg" /\ c.args.stepID = "" /\ client.StageID # ""
            /\ c.pc = "done" /\ c.attempts = 0
            /\ c.retErr = Errorf("stepID is not set")

\* the fields a validator may require, in the order the validators check
\* them, and the name each has in the error message
FieldOrder ==
    <<"endpoint", "token", "accountID", "orgID", "projectID", "pipelineID",
      "buildID", "stageID", "stepID", "report", "language", "source", "target",
      "branch">>

FieldLabel(f) ==
    CASE f = "endpoint" -> "ti endpoint"
      [] f = "token" -> "ti token"
      [] f = "source" -> "source branch"
      [] f = "target" -> "target branch"
      [] f = "branch" -> "source branch"
      [] OTHER -> f

FieldEmpty(f, cl, args) ==
    CASE f = "endpoint" -> cl.Endpoint = <<>>
      [] f = "token" -> cl.Token = ""
      [] f = "accountID" -> cl.AccountID = ""
      [] f = "orgID" -> cl.OrgID = ""
      [] f = "projectID" -> cl.ProjectID = ""
      [] f = "pipelineID" -> cl.PipelineID = ""
      [] f = "buildID" -> cl.BuildID = ""
      [] f = "stageID" -> cl.StageID = ""
      [] OTHER -> args[f] = ""

BasePair == {"endpoint", "token"}
ScopeFields == {"accountID", "orgID", "projectID", "pipelineID"}
RunFields == {"buildID", "stageID", "stepID"}

\* the fields each operation requires
RequiredFields(op) ==
    CASE op = "Write" -> BasePair \cup ScopeFields \cup RunFields \cup {"report"}
      [] op = "WriteSavings" -> BasePair \cup ScopeFields \cup RunFields
      [] op = "DownloadLink" -> BasePair \cup {"language"}
      [] op \in {"SelectTests", "UploadCg", "UploadCgFailedTest"} ->
            BasePair \cup ScopeFields \cup RunFields \cup {"source", "target"}
      [] op = "CommitInfo" -> BasePair \cup ScopeFields \cup RunFields \cup {"branch"}
      [] op \in {"GetTestTimes", "MLSelectTests", "Summary", "GetTestCases"} ->
            BasePair \cup ScopeFields
      [] op = "UploadCgV2" -> BasePair
      [] OTHER -> {}

\* the required fields of the call that are empty
Missing(c) == {f \in RequiredFields(c.op) : FieldEmpty(f, client, c.args)}

\* the position of a field in the order
FieldIndex(f) == CHOOSE k \in 1..Len(FieldOrder) : FieldOrder[k] = f

\* the first empty required field in the order
FirstMissing(c) ==
    CHOOSE f \in Missing(c) : \A g \in Missing(c) : FieldIndex(f) <= FieldIndex(g)

NotSet(f) == Errorf(FieldLabel(f) \o " is not set")

\* C8: for any set of empty fields, the error an operation returns is the
\* one for the first empty field, in the one fixed order, among the fields
\* the operation requires.
C8_FirstMissingField ==
    \A i \in Calls :
        LET c == calls[i]
        IN  (c.op \in ValidatedOps /\ Missing(c) # {}) =>
               (c.pc = "done" /\ c.retErr = NotSet(FirstMissing(c)))

\* several fields empty at once: the error names the first of them
C8_Witness ==
    \E i \in Calls :
        LET c == calls[i]
        IN  /\ c.op = "SelectTests" /\ c.pc = "done"
            /\ Missing(c) = {"orgID", "stageID", "source", "target"}
            /\ c.retErr = Errorf("orgID is not set")

\* C9 as stated: every operation called on a client whose endpoint or token
\* is empty returns the base pair's error and sends no request.
C9_AsStated ==
    \A i \in Calls :
        LET c == calls[i]
        IN  (c.pc # "idle" /\ validateTiArgs(client) # Nil) =>
               /\ c.pc = "done"
               /\ c.retErr = validateTiArgs(client)
               /\ c.attempts = 0 /\ c.sent = 0

\* C10: when exactly one required field of an operation is empty, the error
\* is "<field> is not set" with the field's name; the endpoint and the token
\* are named "ti endpoint" and "ti token", and CommitInfo's branch argument
\* "source branch".
C10_MessageNamesField ==
    \A i \in Calls :
        LET c == calls[i]
        IN  \A f \in RequiredFields(c.op) :
               (c.op \in ValidatedOps /\ Missing(c) = {f}) =>
                  /\ c.pc = "done"
                  /\ c.retErr.kind = "validation"
                  /\ c.retErr.msg =
                       (CASE f = "endpoint" -> "ti endpoint is not set"
                          [] f = "token" -> "ti token is not set"
                          [] f = "accountID" -> "accountID is not set"
                          [] f = "orgID" -> "orgID is not set"
                          [] f = "projectID" -> "projectID is not set"
                          [] f = "pipelineID" -> "pipelineID is not set"
                          [] f = "buildID" -> "buildID is not set"
                          [] f = "stageID" -> "stageID is not set"
                          [] f = "stepID" -> "stepID is not set"
                          [] f = "report" -> "report is not set"
                          [] f = "language" -> "language is not set"
                          [] f = "source" -> "source branch is not set"
                          [] f = "target" -> "target branch is not set"
                          [] f = "branch" -> "source branch is not set")

\* CommitInfo with only its branch argument empty
C10_Witness ==
    \E i \in Calls :
        LET c == calls[i]
        IN  /\ c.op = "CommitInfo" /\ c.pc = "done" /\ Missing(c) = {"branch"}
            /\ c.retErr.msg = "source branch is not set"

C19_AsStated ==
    \A i \in Calls :
        LET c == calls[i]
        IN  (InRetry(c) /\ Is5xx(c.res) /\ Live(c) /\ c.pc = "done") => c.stops > 0

(***************************************************************************)
(* Two calls running concurrently on one client.                           *)
(***************************************************************************)
\* the outcomes of an attempt followed here: a transport failure, a 503, a
\* 200 with a body that decodes
PairAnswers ==
    {a \in Answers :
        \/ a.fail = "send"
        \/ a.fail = "none" /\ a.status \in {200, 503} /\ a.body = "json"}

InitPair ==
    /\ client \in {c \in Clients : validateWriteArgs(c, "x", "x") = Nil}
    /\ calls = [i \in {1, 2} |-> IdleCall]
    /\ backoffs = <<>>
    /\ requests = [i \in DOMAIN calls |-> ZeroRequest]
    /\ result = NoResult

NextPair ==
    \/ \E i \in Calls : UploadCg(i, "x", "x", "x")
    \/ \E i \in Calls : Write(i, "x", "x")
    \/ \E i \in Calls : CtxCancel(i)
    \/ \E i \in Calls : BudgetElapses(i)
    \/ \E i \in Calls, ans \in PairAnswers : retryAttempt(i, ans)
    \/ \E i \in Calls : retryLoop(i)
    \/ \E i \in Calls : retryContinue(i)

SpecPair == InitPair /\ [][NextPair]_vars

\* C20: of two calls running concurrently on one client, each has a schedule
\* of its own, created by its own createBackoff, and no schedule is consulted
\* by more than one call; a step of one call changes neither the other call
\* nor the other call's schedule, and one call's budget running out leaves
\* the other call's schedule as it was, so that the attempts a call makes and
\* the moment it gives up depend on its own responses, context and schedule
\* only.
C20_OwnSchedule ==
    [][\A i \in Calls : \A j \in Calls \ {i} :
          LET c == calls[i]
              d == calls'[i]
              e == calls'[j]
          IN  /\ (d.pc \in {"attempt", "decide", "sleep"}) =>
                     (d.b \in DOMAIN backoffs' /\ d.b # e.b)
              /\ \A k \in DOMAIN backoffs' :
                     i \in backoffs'[k].users => (k = d.b /\ j \notin backoffs'[k].users)
              /\ d # c => e = calls[j]
              /\ (d # c /\ e.b # 0) => backoffs'[e.b] = backoffs[e.b]
              /\ (c.b # 0 /\ e.b # 0 /\ backoffs'[c.b] # backoffs[c.b]) =>
                     backoffs'[e.b] = backoffs[e.b]]_vars

\* two uploads at once: the budget of the first runs out and it gives up on
\* its first 503, the second goes on through 503, 503 to a 200
C20_Witness ==
    /\ calls[1].op = "UploadCg" /\ calls[2].op = "UploadCg"
    /\ calls[1].b # calls[2].b
    /\ GaveUp(calls[1]) /\ calls[1].attempts = 1 /\ calls[1].res = 503
    /\ backoffs[calls[1].b].expired /\ ~backoffs[calls[2].b].expired
    /\ calls[2].pc = "done" /\ calls[2].attempts = 3 /\ calls[2].n5xx = 2
    /\ calls[2].stops = 0 /\ calls[2].retErr = Nil

(***************************************************************************)
(* Two calls sharing one constructed client, over every operation.         *)
(***************************************************************************)
\* NewHTTPClient applied to the arguments in and the machine in.os
Constructed(in) ==
    [fn |-> "NewHTTPClient", in |-> in,
     out |-> NewHTTPClient(in.endpoint, in.token, in.accountID, in.orgID, in.projectID,
                           in.pipelineID, in.buildID, in.stageID, in.repo, in.sha,
                           in.commitLink, in.skipverify, in.additionalCertsDir,
                           in.base64MtlsClientCert, in.base64MtlsClientCertKey, in.os)]

\* arguments that set every identifier and leave the security settings at
\* their defaults
PlainArguments ==
    [endpoint |-> <<"h", "/">>, token |-> "x", accountID |-> "x", orgID |-> "x",
     projectID |-> "x", pipelineID |-> "x", buildID |-> "x", stageID |-> "x",
     repo |-> "x", sha |-> "x", commitLink |-> "x", skipverify |-> FALSE,
     additionalCertsDir |-> "", base64MtlsClientCert |-> "",
     base64MtlsClientCertKey |-> "", os |-> BareOS]

\* the security settings of the clients followed: all defaults, skipverify,
\* a directory of trust roots, an inline client certificate
SecurityArguments ==
    {PlainArguments,
     [PlainArguments EXCEPT !.skipverify = TRUE],
     [PlainArguments EXCEPT !.additionalCertsDir = CertsDir,
                            !.os.dirs = [d \in {CertsDir} |-> <<"certA">>]],
     [PlainArguments EXCEPT !.base64MtlsClientCert = "Y2VydEE=",
                            !.base64MtlsClientCertKey = "a2V5QQ=="]}

\* the requests the callers hold: nothing set, and a request for all stages
\* with its own identifiers
SharedRequests ==
    {ZeroRequest,
     [OrgID |-> "r", ProjectID |-> "", PipelineID |-> "r", BuildID |-> "",
      StageID |-> "s", StepID |-> "s", ReportType |-> "", AllStages |-> TRUE]}

\* the outcomes of an attempt followed here: a 200 and a 503
SharedAnswers ==
    {a \in Answers :
        /\ a.fail = "none"
        /\ a.status \in {200, 503}
        /\ a.body = (IF a.status = 200 /\ a.body = "json" THEN "json" ELSE "empty")}

InitShared ==
    /\ result \in {Constructed(in) : in \in {PlainArguments}}
    /\ client = result.out
    /\ calls = [i \in {1, 2} |-> IdleCall]
    /\ backoffs = <<>>
    /\ requests \in [{1, 2} -> SharedRequests]

NextShared ==
    \/ \E i \in Calls : Write(i, "x", "x")
    \/ \E i \in Calls : DownloadLink(i, "x")
    \/ \E i \in Calls : SelectTests(i, "x", "x", "x")
    \/ \E i \in Calls : UploadCgFailedTest(i, "x", "x", "x")
    \/ \E i \in Calls : UploadCg(i, "x", "x", "x")
    \/ \E i \in Calls, payload \in {"string", "other"} : UploadCgV2(i, payload)
    \/ \E i \in Calls : GetTestTimes(i, "x")
    \/ \E i \in Calls : CommitInfo(i, "x", "x")
    \/ \E i \in Calls, ans \in SharedAnswers : MLSelectTests(i, "x", "x", "x", ans)
    \/ \E i \in Calls : Summary(i)
    \/ \E i \in Calls : GetTestCases(i)
    \/ \E i \in Calls, ans \in SharedAnswers : WriteSavings(i, "x", ans)
    \/ \E i \in Calls, ans \in SharedAnswers : Healthz(i, ans)
    \/ \E i \in Calls, ans \in SharedAnswers : DownloadAgent(i, ans)
    \/ \E i \in Calls, ans \in SharedAnswers : retryAttempt(i, ans)
    \/ \E i \in Calls : retryLoop(i)
    \/ \E i \in Calls : retryContinue(i)

SpecShared == InitShared /\ [][NextShared]_vars

\* C21: no operation changes a field of the client or the request value its
\* caller holds: at every step of two calls running concurrently the client
\* is the one NewHTTPClient returned, and Summary and GetTestCases fill the
\* defaults into the copy of the request they received by value.
C21_ClientNeverModified ==
    [][/\ client' = client
       /\ client' = result'.out
       /\ requests' = requests
       /\ \A i \in Calls :
             calls'[i].op \in {"Summary", "GetTestCases"} /\ calls'[i].pc # "done"
                => calls'[i].args.request = SetBasicArguments(client, requests[i])]_vars

\* two calls are running, one of them a Summary that filled defaults into
\* its copy of a request the caller still holds unfilled
C21_Witness ==
    /\ client = result.out
    /\ \E i, j \in Calls :
          /\ i # j
          /\ calls[i].op = "Summary" /\ calls[i].pc = "decide"
          /\ calls[j].op = "GetTestCases" /\ calls[j].pc = "decide"
          /\ calls[i].args.request # requests[i]
          /\ calls[i].args.request.OrgID = client.OrgID
          /\ requests[i] = ZeroRequest

(***************************************************************************)
(* The checksum of a chain of (path, checksum) pairs                       *)
(* (chrysalis/utils/utils.go).  Words have WordBits bits.                  *)
(***************************************************************************)
\* bits of a hash word followed, standing for the 64 of a uint64
WordBits == 8
\* pairs in a chain
MaxChain == 3

Word == 2 ^ WordBits

\* the byte of a character
Code(ch) ==
    CASE ch = "a" -> 97
      [] ch = "b" -> 98
      [] ch = ":" -> 58
      [] ch = "-" -> 45
      [] ch = "0" -> 48
      [] ch = "1" -> 49
      [] ch = "2" -> 50
      [] ch = "3" -> 51
      [] ch = "4" -> 52
      [] ch = "5" -> 53
      [] ch = "6" -> 54
      [] ch = "7" -> 55
      [] ch = "8" -> 56
      [] ch = "9" -> 57

Digits == <<"0", "1", "2", "3", "4", "5", "6", "7", "8", "9">>

\* strconv.FormatUint(i, 10)
RECURSIVE FormatUint(_)
FormatUint(i) ==
    IF i < 10 THEN <<Digits[i + 1]>>
    ELSE Append(FormatUint(i \div 10), Digits[(i % 10) + 1])

\* strconv.FormatInt(i, 10)
FormatInt(i) == IF i < 0 THEN <<"-">> \o FormatUint(0 - i) ELSE FormatUint(i)

\* xxhash.Sum64(b): the library's hash is followed as a fixed function of
\* the bytes that mixes every byte into a word
RECURSIVE Sum64Upto(_, _)
Sum64Upto(b, k) ==
    IF k = 0 THEN 17
    ELSE ((Sum64Upto(b, k - 1) * 31) + Code(b[k])) % Word

Sum64(b) == Sum64Upto(b, Len(b))

\* the words added instead
Xor_Add(x, y) == (x + y) % Word

\* x ^ y on words
RECURSIVE Xor(_, _)
Xor(x, y) ==
    IF x = 0 THEN y
    ELSE IF y = 0 THEN x
    ELSE ((x + y) % 2) + 2 * Xor(x \div 2, y \div 2)

\* int64(checksum): the word read as a signed number
Int64(checksum) == IF checksum >= Word \div 2 THEN checksum - Word ELSE checksum

\* the checksum after the first k pairs of the loop of the signed variant
RECURSIVE checksumAfter(_, _)
checksumAfter(chain, k) ==
    IF k = 0 THEN 0
    ELSE LET pair == chain[k]
             candidate == pair.Path \o <<":">> \o FormatInt(pair.Checksum)
             hash == Sum64(candidate)
         IN  Xor(checksumAfter(chain, k - 1), hash)

\* the loop hashing each pair together with the checksum so far
RECURSIVE chainedAfter(_, _)
chainedAfter(chain, k) ==
    IF k = 0 THEN 0
    ELSE LET pair == chain[k]
             candidate == pair.Path \o <<":">> \o FormatInt(pair.Checksum)
             hash == Sum64(candidate)
         IN  ((chainedAfter(chain, k - 1) * 31) + hash) % Word

\* ChainChecksum folding the pairs in their order
ChainChecksum_Chained(chain) == Int64(chainedAfter(chain, Len(chain)))

\* ChainChecksum of chrysalis/utils, over pairs with an int64 checksum
ChainChecksum(chain) == Int64(checksumAfter(chain, Len(chain)))

\* the checksum after the first k pairs of the loop of the unsigned variant
RECURSIVE checksumUnsignedAfter(_, _)
checksumUnsignedAfter(chain, k) ==
    IF k = 0 THEN 0
    ELSE LET pair == chain[k]
             candidate == pair.Path \o <<":">> \o FormatUint(pair.Checksum)
             hash == Sum64(candidate)
         IN  Xor(checksumUnsignedAfter(chain, k - 1), hash)

\* ChainChecksum of the variant over pairs with a uint64 checksum
ChainChecksumUnsigned(chain) == checksumUnsignedAfter(chain, Len(chain))

(***************************************************************************)
(* The functions of construction and of request completion, each applied   *)
(* once to arguments drawn from the values below; result holds the         *)
(* function, its arguments and what it returned.                           *)
(***************************************************************************)
\* the endpoints handed to NewHTTPClient
Endpoints == {<<>>, <<"/">>, <<"h">>, <<"h", "/">>, <<"h", "/", "/">>, <<"/", "h">>}

\* the sequences over S of length up to n
SeqsUpTo(S, n) == UNION {[1..k -> S] : k \in 0..n}

\* the strings handed in as inline certificate and key
Base64Inputs == {"", "%", "Y2VydEE=", "Y2VydEI=", "a2V5QQ==", "a2V5Qg==", "Z2FyYmFnZQ=="}

\* the machines loadMTLSCerts runs on: what is at the two certificate paths
MtlsMachines ==
    [files : [{MtlsCertFile, MtlsKeyFile} -> Nodes], dirs : {<<>>}, systemRoots : {TRUE}]

\* the machines loadRootCAs runs on: whether the directory exists and what
\* its entries are, whether the system has roots
RootMachines ==
    [files : {BareOS.files},
     dirs : {<<>>} \cup {[d \in {CertsDir} |-> es] :
                            es \in SeqsUpTo(Nodes \ {"absent"}, MaxEntries)},
     systemRoots : BOOLEAN]

\* the pools handed to clientWithTLSConfig
Pools ==
    {NilPool, NewCertPool, [system |-> TRUE, certs |-> {}],
     [system |-> TRUE, certs |-> {"certA"}]}

\* the requests handed to SetBasicArguments
Requests ==
    [OrgID : {"", "r"}, ProjectID : {"", "r"}, PipelineID : {"", "r"},
     BuildID : {"", "r"}, StageID : {"", "s"}, StepID : {"", "s"},
     ReportType : {"", "custom"}, AllStages : BOOLEAN]

CallNewHTTPClient(in) ==
    /\ result = NoResult
    /\ result' = Constructed(in)
    /\ UNCHANGED <<client, calls, backoffs, requests>>

CallLoadMTLSCerts(base64Cert, base64Key, os) ==
    /\ result = NoResult
    /\ result' = [fn |-> "loadMTLSCerts",
                  in |-> [base64Cert |-> base64Cert, base64Key |-> base64Key, os |-> os],
                  out |-> loadMTLSCerts(base64Cert, base64Key, MtlsCertFile, MtlsKeyFile, os)]
    /\ UNCHANGED <<client, calls, backoffs, requests>>

CallLoadRootCAs(additionalCertsDir, os) ==
    /\ result = NoResult
    /\ result' = [fn |-> "loadRootCAs",
                  in |-> [additionalCertsDir |-> additionalCertsDir, os |-> os],
                  out |-> loadRootCAs(additionalCertsDir, os)]
    /\ UNCHANGED <<client, calls, backoffs, requests>>

CallClientWithTLSConfig(skipverify, rootCAs, mtlsEnabled, cert) ==
    /\ result = NoResult
    /\ result' = [fn |-> "clientWithTLSConfig",
                  in |-> [skipverify |-> skipverify, rootCAs |-> rootCAs,
                          mtlsEnabled |-> mtlsEnabled, cert |-> cert],
                  out |-> clientWithTLSConfig(skipverify, rootCAs, mtlsEnabled, cert)]
    /\ UNCHANGED <<client, calls, backoffs, requests>>

CallSetBasicArguments(c, summaryRequest) ==
    /\ result = NoResult
    /\ result' = [fn |-> "SetBasicArguments",
                  in |-> [c |-> c, summaryRequest |-> summaryRequest],
                  out |-> SetBasicArguments(c, summaryRequest)]
    /\ UNCHANGED <<client, calls, backoffs, requests>>

\* the pairs of a chain, with a signed and with an unsigned checksum
SignedPairs == [Path : {<<"a">>, <<"b">>}, Checksum : {0, 7, 0 - 12}]
UnsignedPairs == [Path : {<<"a">>, <<"b">>}, Checksum : {0, 7, 12}]

CallChainChecksum(chain) ==
    /\ result = NoResult
    /\ result' = [fn |-> "ChainChecksum", in |-> [chain |-> chain],
                  out |-> ChainChecksum(chain)]
    /\ UNCHANGED <<client, calls, backoffs, requests>>

CallChainChecksumUnsigned(chain) ==
    /\ result = NoResult
    /\ result' = [fn |-> "ChainChecksumUnsigned", in |-> [chain |-> chain],
                  out |-> ChainChecksumUnsigned(chain)]
    /\ UNCHANGED <<client, calls, backoffs, requests>>

InitApply ==
    /\ client = Constructed(PlainArguments).out
    /\ calls = [i \in {1} |-> IdleCall]
    /\ backoffs = <<>>
    /\ requests = [i \in DOMAIN calls |-> ZeroRequest]
    /\ result = NoResult

NextApply ==
    \/ \E e \in Endpoints, t \in {"", "t"}, a \in {"", "a"}, o \in {"", "o"},
          set \in BOOLEAN, v \in BOOLEAN :
          CallNewHTTPClient(
              [PlainArguments EXCEPT
                  !.endpoint = e, !.token = t, !.accountID = a, !.orgID = o,
                  !.projectID = IF set THEN "p" ELSE "",
                  !.pipelineID = IF set THEN "l" ELSE "",
                  !.buildID = IF set THEN "b" ELSE "",
                  !.stageID = IF set THEN "s" ELSE "",
                  !.repo = IF set THEN "r" ELSE "",
                  !.sha = IF set THEN "h" ELSE "",
                  !.commitLink = IF set THEN "k" ELSE "",
                  !.skipverify = v])
    \/ \E base64Cert \in Base64Inputs, base64Key \in Base64Inputs,
          os \in MtlsMachines :
          CallLoadMTLSCerts(base64Cert, base64Key, os)
    \/ \E additionalCertsDir \in {"", CertsDir},
          os \in RootMachines :
          CallLoadRootCAs(additionalCertsDir, os)
    \/ \E skipverify \in BOOLEAN, rootCAs \in Pools, mtlsEnabled \in BOOLEAN,
          cert \in {NoCertificate, X509KeyPair("certA", "keyA").cert} :
          CallClientWithTLSConfig(skipverify, rootCAs, mtlsEnabled, cert)
    \/ \E o \in Str, p \in Str, l \in Str, b \in Str, summaryRequest \in Requests :
          CallSetBasicArguments(
              [client EXCEPT !.OrgID = o, !.ProjectID = p, !.PipelineID = l,
                             !.BuildID = b],
              summaryRequest)
    \/ \E chain \in SeqsUpTo(SignedPairs, MaxChain) : CallChainChecksum(chain)
    \/ \E chain \in SeqsUpTo(UnsignedPairs, MaxChain) : CallChainChecksumUnsigned(chain)

SpecApply == InitApply /\ [][NextApply]_vars

\* whether the sequence s ends in the character ch
EndsIn(s, ch) == Len(s) > 0 /\ s[Len(s)] = ch

\* C22: NewHTTPClient stores the endpoint without one trailing "/": an
\* endpoint ending in "/" is the stored one followed by "/", any other is
\* stored as given; the token and the identifiers are stored as given.
C22_EndpointStored ==
    result.fn = "NewHTTPClient" =>
        LET in == result.in
            c == result.out
        IN  /\ EndsIn(in.endpoint, "/") => Append(c.Endpoint, "/") = in.endpoint
            /\ ~EndsIn(in.endpoint, "/") => c.Endpoint = in.endpoint
            /\ c.Token = in.token
            /\ c.AccountID = in.accountID
            /\ c.OrgID = in.orgID
            /\ c.ProjectID = in.projectID
            /\ c.PipelineID = in.pipelineID
            /\ c.BuildID = in.buildID
            /\ c.StageID = in.stageID
            /\ c.Repo = in.repo
            /\ c.Sha = in.sha
            /\ c.CommitLink = in.commitLink

\* an endpoint ending in two "/" was stored with one of them
C22_Witness ==
    /\ result.fn = "NewHTTPClient"
    /\ result.in.endpoint = <<"h", "/", "/">>
    /\ result.out.Endpoint = <<"h", "/">>
    /\ result.in.token = "t"
    /\ result.out.Token = "t"

\* C24: the client built by clientWithTLSConfig skips verification exactly
\* when skipverify is set; has the given roots as its root set exactly when
\* skipverify is not set and roots are given, and no root set otherwise;
\* and carries the client certificate exactly when one is present, in
\* either verify mode.
C24_TransportSettings ==
    result.fn = "clientWithTLSConfig" =>
        LET in == result.in
            config == result.out.Transport.TLSClientConfig
            installed == config.RootCAs # NilPool /\ config.RootCAs = in.rootCAs
        IN  /\ config.InsecureSkipVerify <=> in.skipverify
            /\ installed <=> (~in.skipverify /\ in.rootCAs # NilPool)
            /\ ~installed => config.RootCAs = NilPool
            /\ (config.Certificates = <<in.cert>>) <=> in.mtlsEnabled
            /\ ~in.mtlsEnabled => config.Certificates = <<>>

\* with skipverify set, given roots were left out while the client
\* certificate was attached
C24_Witness ==
    /\ result.fn = "clientWithTLSConfig"
    /\ result.in.skipverify
    /\ result.in.rootCAs = [system |-> TRUE, certs |-> {"certA"}]
    /\ result.in.mtlsEnabled
    /\ result.out.Transport.TLSClientConfig.RootCAs = NilPool
    /\ result.out.Transport.TLSClientConfig.InsecureSkipVerify
    /\ result.out.Transport.TLSClientConfig.Certificates = <<result.in.cert>>

\* whether the inline values are both non-empty, decode, and parse as a pair
InlinePair(base64Cert, base64Key) ==
    /\ base64Cert # ""
    /\ base64Key # ""
    /\ DecodeString(base64Cert).err = Nil
    /\ DecodeString(base64Key).err = Nil
    /\ X509KeyPair(DecodeString(base64Cert).bytes, DecodeString(base64Key).bytes).err = Nil

\* whether both paths hold regular files that parse as a pair
FilePair(os) ==
    /\ os.files[MtlsCertFile] \notin {"absent", "dir"}
    /\ os.files[MtlsKeyFile] \notin {"absent", "dir"}
    /\ os.files[MtlsCertFile] \in Contents
    /\ os.files[MtlsKeyFile] \in Contents
    /\ X509KeyPair(os.files[MtlsCertFile], os.files[MtlsKeyFile]).err = Nil

\* C25: loadMTLSCerts returns the inline certificate, found, without looking
\* at the files when the inline values are both non-empty, decode and parse
\* as a pair; in every other case it returns what the files give, which is
\* found exactly when both paths hold regular files that parse as a pair.
\* It always returns a result.
C25_CertificateResolution ==
    result.fn = "loadMTLSCerts" =>
        LET in == result.in
            out == result.out
            files == loadMTLSCertsFromFiles(MtlsCertFile, MtlsKeyFile, in.os)
        IN  /\ out.enabled \in BOOLEAN
            /\ InlinePair(in.base64Cert, in.base64Key) =>
                  /\ out.enabled
                  /\ ~out.consulted
                  /\ out.cert = [Certificate |-> DecodeString(in.base64Cert).bytes,
                                 PrivateKey |-> DecodeString(in.base64Key).bytes]
            /\ ~InlinePair(in.base64Cert, in.base64Key) => out = files
            /\ files.enabled <=> FilePair(in.os)
            /\ files.enabled =>
                  files.cert = [Certificate |-> in.os.files[MtlsCertFile],
                                PrivateKey |-> in.os.files[MtlsKeyFile]]
            /\ ~files.enabled => files.cert = NoCertificate

\* inline values that decode but do not match were passed over for the pair
\* in the files
C25_Witness ==
    /\ result.fn = "loadMTLSCerts"
    /\ result.in.base64Cert = "Y2VydEE="
    /\ result.in.base64Key = "a2V5Qg=="
    /\ result.in.os.files[MtlsCertFile] = "certB"
    /\ result.in.os.files[MtlsKeyFile] = "keyB"
    /\ result.out.enabled
    /\ result.out.consulted
    /\ result.out.cert.Certificate = "certB"

\* the certificates among the entries of a directory
CertificatesIn(files) ==
    {files[k] : k \in {j \in 1..Len(files) : files[j] \in {"certA", "certB"}}}

\* C26: loadRootCAs returns no pool for the empty path; for any other path
\* it returns a pool, also when the directory cannot be read, and the pool
\* holds exactly the certificates among the directory's entries: an entry
\* that cannot be read or parsed is skipped and the entries after it are
\* still added.
C26_RootsResolution ==
    result.fn = "loadRootCAs" =>
        LET in == result.in
            out == result.out
        IN  /\ in.additionalCertsDir = "" => out = NilPool
            /\ in.additionalCertsDir # "" =>
                  /\ out # NilPool
                  /\ out.system = in.os.systemRoots
                  /\ out.certs =
                        IF in.additionalCertsDir \in DOMAIN in.os.dirs
                        THEN CertificatesIn(in.os.dirs[in.additionalCertsDir])
                        ELSE {}

\* a certificate after an entry that does not parse was added
C26_Witness ==
    /\ result.fn = "loadRootCAs"
    /\ result.in.additionalCertsDir = CertsDir
    /\ CertsDir \in DOMAIN result.in.os.dirs
    /\ result.in.os.dirs[CertsDir] = <<"garbage", "certA">>
    /\ result.out.certs = {"certA"}

\* the identifiers SetBasicArguments fills in
FilledFields == {"OrgID", "ProjectID", "PipelineID", "BuildID"}

\* C28: SetBasicArguments replaces an empty OrgID, ProjectID, PipelineID or
\* BuildID of the request by the client's and keeps a non-empty one; an
\* empty ReportType becomes "junit" and a non-empty one is kept; with
\* AllStages set StageID and StepID become empty, otherwise they are kept;
\* nothing else of the request changes.
C28_BasicArguments ==
    result.fn = "SetBasicArguments" =>
        LET c == result.in.c
            before == result.in.summaryRequest
            after == result.out
        IN  /\ \A f \in FilledFields :
                  after[f] = IF before[f] = "" THEN c[f] ELSE before[f]
            /\ after.ReportType = IF before.ReportType = "" THEN "junit" ELSE before.ReportType
            /\ before.AllStages => after.StageID = "" /\ after.StepID = ""
            /\ ~before.AllStages =>
                  after.StageID = before.StageID /\ after.StepID = before.StepID
            /\ after.AllStages = before.AllStages
            /\ DOMAIN after = DOMAIN before

\* a request for all stages had its stage and step cleared, its empty OrgID
\* filled and its own ProjectID kept
C28_Witness ==
    /\ result.fn = "SetBasicArguments"
    /\ result.in.summaryRequest.AllStages
    /\ result.in.summaryRequest.StageID = "s"
    /\ result.in.summaryRequest.OrgID = ""
    /\ result.in.summaryRequest.ProjectID = "r"
    /\ result.in.c.OrgID = "x"
    /\ result.in.c.ProjectID = "x"
    /\ result.out.StageID = ""
    /\ result.out.OrgID = "x"
    /\ result.out.ProjectID = "r"
    /\ result.out.ReportType = "junit"

(***************************************************************************)
(* One call on a client constructed with each of the security settings.    *)
(***************************************************************************)
\* the outcomes of an attempt followed here: a 200, a redirect, a 503
UseAnswers ==
    {a \in Answers :
        /\ a.fail = "none"
        /\ a.status \in {200, 302, 503}
        /\ a.body = (IF a.status = 200 /\ a.body = "json" THEN "json" ELSE "empty")}

InitUse ==
    /\ result \in {Constructed(in) : in \in SecurityArguments}
    /\ client = result.out
    /\ calls = [i \in {1} |-> IdleCall]
    /\ backoffs = <<>>
    /\ requests = [i \in DOMAIN calls |-> ZeroRequest]

NextUse ==
    \/ \E i \in Calls : Write(i, "x", "x")
    \/ \E i \in Calls : DownloadLink(i, "x")
    \/ \E i \in Calls : SelectTests(i, "x", "x", "x")
    \/ \E i \in Calls : UploadCgFailedTest(i, "x", "x", "x")
    \/ \E i \in Calls : UploadCg(i, "x", "x", "x")
    \/ \E i \in Calls, payload \in {"string", "other"} : UploadCgV2(i, payload)
    \/ \E i \in Calls : GetTestTimes(i, "x")
    \/ \E i \in Calls : CommitInfo(i, "x", "x")
    \/ \E i \in Calls, ans \in UseAnswers : MLSelectTests(i, "x", "x", "x", ans)
    \/ \E i \in Calls : Summary(i)
    \/ \E i \in Calls : GetTestCases(i)
    \/ \E i \in Calls, ans \in UseAnswers : WriteSavings(i, "x", ans)
    \/ \E i \in Calls, ans \in UseAnswers : Healthz(i, ans)
    \/ \E i \in Calls, ans \in UseAnswers : DownloadAgent(i, ans)
    \/ \E i \in Calls : CtxCancel(i)
    \/ \E i \in Calls : BudgetElapses(i)
    \/ \E i \in Calls, ans \in UseAnswers : retryAttempt(i, ans)
    \/ \E i \in Calls : retryLoop(i)
    \/ \E i \in Calls : retryContinue(i)

SpecUse == InitUse /\ [][NextUse]_vars

\* whether NewHTTPClient was called with skipverify unset, resolved no
\* trust roots and found no client certificate
AllDefault(in) ==
    /\ ~in.skipverify
    /\ loadRootCAs(in.additionalCertsDir, in.os) = NilPool
    /\ ~loadMTLSCerts(in.base64MtlsClientCert, in.base64MtlsClientCertKey,
                      MtlsCertFile, MtlsKeyFile, in.os).enabled

\* C23: a client constructed with all security settings at their defaults
\* holds no http client of its own and sends every request through the
\* default client; constructed with any of them set it holds one client
\* with a transport of its own, built at construction, and sends every
\* request through that one.
C23_ClientUsed ==
    /\ AllDefault(result.in) =>
          /\ client.Client = NilClient
          /\ \A i \in Calls : calls[i].sent > 0 => calls[i].via = defaultClient
    /\ ~AllDefault(result.in) =>
          /\ client.Client # NilClient
          /\ client.Client # defaultClient
          /\ client.Client.Transport # defaultClient.Transport
          /\ client.Client = result.out.Client
          /\ \A i \in Calls : calls[i].sent > 0 => calls[i].via = client.Client

\* a client with trust roots only sent its second request through the
\* client built for it
C23_Witness ==
    /\ ~result.in.skipverify
    /\ result.in.additionalCertsDir = CertsDir
    /\ client.Client.Transport.TLSClientConfig.RootCAs.certs = {"certA"}
    /\ \E i \in Calls :
          /\ calls[i].sent = 2
          /\ calls[i].via = client.Client

\* C27: neither the default client nor a client built with TLS settings
\* follows a redirect: the redirect response is the response of the attempt
\* and no request goes to the redirect location.
C27_NoRedirectFollowed ==
    \A i \in Calls :
        /\ calls[i].hops = 0
        /\ calls[i].sent <= calls[i].attempts

\* the default client handed a 302 back as the response of the attempt
C27_Witness ==
    /\ client.Client = NilClient
    /\ \E i \in Calls :
          /\ calls[i].res = 302
          /\ calls[i].via = defaultClient
          /\ calls[i].sent = calls[i].attempts
          /\ calls[i].hops = 0

\* C29: UploadCgV2 validates the base pair first; every request it then
\* sends for a string payload carries the payload as given, and a payload
\* of another type ends the call with "payload type not supported" before
\* any request.
C29_AsStated ==
    \A i \in Calls :
        calls[i].op = "UploadCgV2" =>
            LET c == calls[i]
            IN  /\ validateTiArgs(client) # Nil =>
                      c.sent = 0 /\ c.retErr = validateTiArgs(client)
                /\ validateTiArgs(client) = Nil /\ c.args.payload = "string" /\ c.sent > 0 =>
                      c.body = "payload"
                /\ validateTiArgs(client) = Nil /\ c.args.payload # "string" =>
                      /\ c.sent = 0
                      /\ c.pc = "done"
                      /\ c.retErr = Err("errors", 0, "payload type not supported")

\* the chain with its pairs in the order perm
Permuted(chain, perm) == [k \in 1..Len(chain) |-> chain[perm[k]]]

\* the orders of n pairs
Orders(n) == {perm \in [1..n -> 1..n] : \A j, k \in 1..n : perm[j] = perm[k] => j = k}

Saturated(c) ==
    LET AtMost(n) == IF n > MaxAttempts THEN MaxAttempts ELSE n
    IN  [c EXCEPT !.attempts = AtMost(@), !.sent = AtMost(@), !.n5xx = AtMost(@),
                  !.consults = AtMost(@), !.stops = AtMost(@), !.sleeps = AtMost(@),
                  !.unclosed = AtMost(@), !.hops = AtMost(@)]

\* an attempt returns; the outcomes followed here are a transport failure,
\* a 503, a 404 and a 200
liveAttempt(i) ==
    /\ calls[i].pc = "attempt"
    /\ \E ans \in (IF calls[i].isOpen THEN OpenAnswers ELSE DoAnswers(calls[i].hasIn)) :
          /\ \/ ans.fail = "send"
             \/ ans.fail = "none" /\ ans.status \in {200, 404, 503} /\ ans.body = "empty"
          /\ calls' = [calls EXCEPT ![i] = Saturated(attempted(@, ans))]
    /\ UNCHANGED <<client, backoffs, requests, result>>

liveLoop(i) ==
    /\ calls[i].pc = "decide"
    /\ calls' = [calls EXCEPT ![i] = Saturated(retryDecide(@))]
    /\ backoffs' = IF CtxErr(calls[i].ctx) = Nil
                   THEN [backoffs EXCEPT ![calls[i].b].users = @ \cup {i}]
                   ELSE backoffs
    /\ UNCHANGED <<client, requests, result>>

liveContinue(i) ==
    /\ calls[i].pc = "sleep"
    /\ calls' = [calls EXCEPT ![i] =
                   Saturated([@ EXCEPT !.pc = "attempt", !.sleeps = @ + 1,
                                       !.res = 0, !.err = Nil])]
    /\ UNCHANGED <<client, backoffs, requests, result>>

NextLive ==
    \/ \E i \in Calls : Write(i, "x", "x")
    \/ \E i \in Calls : UploadCg(i, "x", "x", "x")
    \/ \E i \in Calls : UploadCgV2(i, "string")
    \/ \E i \in Calls : BudgetElapses(i)
    \/ \E i \in Calls : liveAttempt(i)
    \/ \E i \in Calls : liveLoop(i)
    \/ \E i \in Calls : liveContinue(i)

SpecLive ==
    /\ Init
    /\ [][NextLive]_vars
    /\ \A i \in {1} :
          /\ WF_vars(liveAttempt(i))
          /\ WF_vars(liveLoop(i))
          /\ WF_vars(liveContinue(i))
          /\ WF_vars(BudgetElapses(i))

\* C31: a call that has entered the retrying wrapper, its schedule with a
\* non-zero MaxElapsedTime, returns in the end, whatever the outcomes of its
\* attempts: the schedule returns Stop once its time has elapsed and the
\* wrapper returns.
C31_EventuallyReturns ==
    \A i \in {1} :
        (calls[i].pc = "attempt" /\ backoffs[calls[i].b].MaxElapsedTime # 0)
            ~> (calls[i].pc = "done")

\* a call returned on Stop after MaxAttempts attempts or more, all of them
\* answered 5xx
C31_Witness ==
    \E i \in Calls :
        LET c == calls[i]
        IN  /\ c.pc = "done" /\ c.stops = 1
            /\ c.attempts = MaxAttempts /\ c.sleeps = MaxAttempts
            /\ c.n5xx = MaxAttempts
            /\ backoffs[c.b].expired

\* C32 as stated: a retried call whose last attempt got a status below 300
\* and decoded its result without error returns a nil error, whenever the
\* context is cancelled.
C32_AsStated ==
    \A i \in Calls :
        LET c == calls[i]
        IN  (InRetry(c) /\ c.pc = "done" /\ c.attempts > 0
               /\ Is2xx(c.res) /\ c.err = Nil) => c.retErr = Nil

\* C33 as stated: every request of a retried call carries the body its
\* first request carried.
C33_AsStated ==
    \A i \in Calls :
        LET c == calls[i]
        IN  (InRetry(c) /\ c.sent > 0) => c.body = c.firstBody

\* C34 as stated: UploadCgV2 returns an error whenever the response to its
\* last attempt has a status >= 300, and returns nil only after a response
\* with a status below 300.
C34_AsStated ==
    \A i \in Calls :
        LET c == calls[i]
        IN  (c.op = "UploadCgV2" /\ c.pc = "done" /\ c.attempts > 0 /\ Live(c)) =>
               /\ c.res >= StatusMultipleChoices => c.retErr # Nil
               /\ c.retErr = Nil => Is2xx(c.res)

\* C35 as stated: an attempt that fails before a request is sent, the input
\* not serialized or the request not built, is the last of its call: no
\* sleep and no attempt follows it.
C35_AsStated ==
    \A i \in Calls :
        LET c == calls[i]
        IN  (InRetry(c) /\ Live(c) /\ c.err.kind \in {"encode", "build"}) =>
               c.pc \in {"decide", "done"}

\* C36 as stated: DownloadAgent returns; without a response it returns no
\* stream and the error, and with a nil error the open body of the response.
C36_AsStated ==
    \A i \in Calls :
        LET c == calls[i]
        IN  (c.op = "DownloadAgent" /\ c.pc # "idle") =>
               /\ c.pc = "done"
               /\ c.res = 0 => c.retErr # Nil /\ c.unclosed = 0
               /\ c.retErr = Nil => c.res # 0 /\ c.unclosed = 1

\* C37: in the retrying wrapper one sleep lies between two consecutive
\* attempts, the schedule is consulted at most once per attempt, no sleep
\* follows the last attempt, and a call that returns has made one attempt
\* more than it has completed sleeps.
C37_SleepsBetweenAttempts ==
    \A i \in Calls :
        LET c == calls[i]
        IN  (InRetry(c) /\ c.pc # "idle") =>
               /\ c.pc = "attempt" => c.sleeps = c.attempts
               /\ c.pc \in {"decide", "sleep"} => c.attempts = c.sleeps + 1
               /\ (c.pc = "done" /\ c.attempts > 0) => c.attempts = c.sleeps + 1
               /\ c.consults <= c.attempts
               /\ c.pc = "sleep" => c.consults = c.attempts

\* a call that returned after MaxAttempts attempts, the schedule consulted
\* after each of them
C37_Witness ==
    \E i \in Calls :
        LET c == calls[i]
        IN  /\ InRetry(c) /\ c.pc = "done"
            /\ c.attempts = MaxAttempts
            /\ c.sleeps = MaxAttempts - 1
            /\ c.consults = MaxAttempts

\* C38 as stated: whatever endpoint NewHTTPClient is given, the Endpoint it
\* stores does not end in "/".
C38_AsStated ==
    result.fn = "NewHTTPClient" => ~EndsIn(result.out.Endpoint, "/")

\* C39: in both variants of ChainChecksum a pair appended twice to a chain
\* leaves the checksum of the chain as it was, and the empty chain has the
\* checksum 0; so a chain of one pair an even number of times has the
\* checksum 0 of the empty chain.
C39_PairsCancel ==
    /\ result.fn = "ChainChecksum" =>
          /\ \A p \in SignedPairs :
                ChainChecksum(result.in.chain \o <<p, p>>) = result.out
          /\ result.in.chain = <<>> => result.out = 0
    /\ result.fn = "ChainChecksumUnsigned" =>
          /\ \A p \in UnsignedPairs :
                ChainChecksumUnsigned(result.in.chain \o <<p, p>>) = result.out
          /\ result.in.chain = <<>> => result.out = 0

\* the checksum 0 of a chain of one pair twice, a pair whose own checksum
\* is not 0
C39_Witness ==
    /\ result.fn = "ChainChecksum"
    /\ Len(result.in.chain) = 2
    /\ result.in.chain[1] = result.in.chain[2]
    /\ ChainChecksum(<<result.in.chain[1]>>) # 0
    /\ result.out = 0

====
